---- MODULE Spec2Model ----
(***************************************************************************)
(* Model of the seedance2.0 server: the platform request client            *)
(* (platformRequest), the browser session pool (BrowserService), the       *)
(* direct-model generation flow (generateSeedanceVideo) and the task       *)
(* registry behind /api/generate-video and /api/task/:taskId.              *)
(*                                                                         *)
(* Times are in milliseconds, as in the source.                            *)
(***************************************************************************)
EXTENDS Integers, Sequences, FiniteSets, TLC

VARIABLES
    now,          \* Date.now(), advanced only by the timers the code awaits
    rq_pc,        \* platformRequest: "idle" | "http" | "backoff" | "returned" | "thrown"
    rq_platform,  \* platformConfig.key of the call
    rq_attempt,   \* the loop variable `attempt`
    rq_seen,      \* classification of every HTTP attempt made by this call, in order
    rq_waits,     \* every backoff delay slept by this call, in order
    rq_result,    \* what the call returned or threw
    browser,      \* BrowserService.browser: a browser id, 0 for null
    connected,    \* the launched browsers whose process is alive (isConnected())
    launched,     \* how many browsers chromium.launch has produced
    contexts,     \* every browser context ever created: [key, browser, open]
    sessions,     \* BrowserService.sessions: key -> context id of the session, 0 for none
    timers,       \* the sessions (context ids) whose idleTimer is armed
    closing,      \* closeSessionByKey calls of idle timers awaiting context.close()
    sessionLocks, \* BrowserService.sessionLocks: key -> run id of the last chained promise, 0 for none
    nruns,        \* how many run promises runWithSessionLock has created
    crashes,      \* how many times a browser process has died on its own
    procs,        \* the callers of the pool: position and locals of each
    tasks,        \* the ids in the `tasks` Map
    task,         \* the task object of the job: status, progress, result, error, startTime
    job,          \* generateSeedanceVideo: its position and locals
    purges,       \* the deadlines of the armed setTimeout(() => tasks.delete(task.id), 300000)
    reply,        \* the last HTTP response of /api/generate-video or /api/task/:taskId
    firstSeen,    \* when a poll first answered done or error, -1 before
    ns_in,        \* normalizeSessionInput: the rawInput being put together
    ns_out,       \* normalizeSessionInput: what the call returned, per platform key
    sig_a,        \* createAWSSignature: the arguments of a call and its result
    sig_b,        \* createAWSSignature: the same for a second call
    cls_in,       \* a response body handed to both request paths, and the platform
    cls_out,      \* what platformRequest and platformRequestViaBrowser made of it
    ml_in,        \* buildMetaListFromPrompt: the prompt being typed and the image count
    ml_out,       \* buildMetaListFromPrompt: the list the call returned
    client,       \* the page: submitLockRef, generation.status, the stored snapshot
    flows         \* the calls of handleGenerate and resumePendingTask under way

reqVars == <<rq_pc, rq_platform, rq_attempt, rq_seen, rq_waits, rq_result>>

poolVars == <<browser, connected, launched, contexts, sessions, timers, closing,
              sessionLocks, nruns, crashes, procs>>

jobVars == <<tasks, task, job, purges, reply, firstSeen>>

nsVars == <<ns_in, ns_out>>

sigVars == <<sig_a, sig_b>>

clsVars == <<cls_in, cls_out>>
mlVars == <<ml_in, ml_out>>
clientVars == <<client, flows>>
pureVars == <<nsVars, sigVars, clsVars, mlVars, clientVars>>
serverVars == <<now, reqVars, poolVars, jobVars>>
notNs == <<serverVars, sigVars, clsVars, mlVars, clientVars>>
notSig == <<serverVars, nsVars, clsVars, mlVars, clientVars>>
notCls == <<serverVars, nsVars, sigVars, mlVars, clientVars>>
notMl == <<serverVars, nsVars, sigVars, clsVars, clientVars>>
notClient == <<serverVars, nsVars, sigVars, clsVars, mlVars>>

vars == <<now, reqVars, poolVars, jobVars, pureVars>>

(***************************************************************************)
(* Platforms and messages                                                  *)
(***************************************************************************)
PLATFORM_CONFIGS == {"jimeng", "xyq"}

\* The session cookie field an auth failure message names.
SessionCookieField_swapped(platformKey) ==
    IF platformKey = "xyq" THEN "sessionid" ELSE "sessionid_pippitcn_web"

SessionCookieField(platformKey) ==
    IF platformKey = "xyq" THEN "sessionid_pippitcn_web" ELSE "sessionid"

\* An Error object: which message it carries, the cookie field and the ret
\* code the message names, whether the text of the message contains "生成失败"/"内容被过滤", and the isApiError mark.
Err(kind, cookie, ret, vendorFail, api) ==
    [kind |-> kind, cookie |-> cookie, ret |-> ret,
     vendorFail |-> vendorFail, isApiError |-> api]

NoErr == Err("none", "", 0, FALSE, FALSE)

(***************************************************************************)
(* HTTP responses                                                          *)
(***************************************************************************)
\* The `data` member of a JSON answer, as far as the flows read it: of a
\* get_history_by_ids answer the history entry (present or not, its status,
\* fail_code, whether item_list[0] has an id and a video url), of a generate
\* answer whether aigc_data.history_record_id is there.
Data(hist, status, failCode, item, url, hid) ==
    [hist |-> hist, status |-> status, fail_code |-> failCode,
     item |-> item, url |-> url, history_record_id |-> hid]

Hist(hist, status, failCode, item, url) ==
    Data(hist, status, failCode, item, url, FALSE)

NoData == Hist("missing", 0, 0, FALSE, FALSE)

GenData == Data("missing", 0, 0, FALSE, FALSE, TRUE)

Payloads ==
    { NoData,
      Hist("present", 20, 0, FALSE, FALSE),
      Hist("present", 30, 2038, FALSE, FALSE),
      Hist("present", 30, 1, FALSE, FALSE),
      Hist("present", 50, 0, TRUE, TRUE),
      Hist("present", 50, 0, FALSE, TRUE),
      Hist("present", 50, 0, FALSE, FALSE) }

Resp(kind, ctHtml, bodyHtml, hasRet, ret, errmsg, data) ==
    [kind |-> kind, ctHtml |-> ctHtml, bodyHtml |-> bodyHtml,
     hasRet |-> hasRet, ret |-> ret, errmsg |-> errmsg, data |-> data]

\* What one fetch() of platformRequest can produce: a transport failure, a
\* body that is not JSON (HTML by content type, HTML by body, neither), the
\* JSON literal null, JSON without a numeric ret, and JSON with ret 0, 1015,
\* 5000, 4010 or another code, with an errmsg that is empty, mentions login,
\* mentions "生成失败", or says something else.
RetCodes == {1015, 5000, 4010, 1000}
ErrMsgs == {"", "login", "genfail", "other"}

HttpResponses ==
    { Resp("transport", FALSE, FALSE, FALSE, 0, "", NoData) }
    \cup { Resp("text", c, b, FALSE, 0, "", NoData) : c \in BOOLEAN, b \in BOOLEAN }
    \cup { Resp("json_null", FALSE, FALSE, FALSE, 0, "", NoData) }
    \cup { Resp("json", FALSE, FALSE, FALSE, 0, "", d) : d \in Payloads }
    \cup { Resp("json", FALSE, FALSE, TRUE, 0, "", d) : d \in Payloads }
    \cup { Resp("json", FALSE, FALSE, TRUE, r, e, NoData) : r \in RetCodes, e \in ErrMsgs }

looksLikeHtml(resp) == resp.ctHtml \/ resp.bodyHtml

(***************************************************************************)
(* platformRequest                                                         *)
(***************************************************************************)
Outcome(tag, data, err) == [tag |-> tag, data |-> data, err |-> err]

NoOutcome == Outcome("none", NoData, NoErr)

\* The body of the try block for one response: what it returns or throws.
ClassifyResponse(platformKey, resp) ==
    CASE resp.kind = "transport" ->
            Outcome("throw", NoData, Err("transport", "", 0, FALSE, FALSE))
      [] resp.kind = "text" /\ looksLikeHtml(resp) ->
            Outcome("throw", NoData,
                    Err("auth_html", SessionCookieField(platformKey), 0, FALSE, TRUE))
      [] resp.kind = "text" /\ ~looksLikeHtml(resp) ->
            Outcome("throw", NoData, Err("non_json", "", 0, FALSE, TRUE))
      [] resp.kind = "json_null" ->
            \* data.ret on null: a TypeError, which carries no isApiError
            Outcome("throw", NoData, Err("type_error", "", 0, FALSE, FALSE))
      [] resp.kind = "json" /\ ~resp.hasRet ->
            Outcome("return", resp.data, NoErr)
      [] resp.kind = "json" /\ resp.hasRet /\ resp.ret = 0 ->
            Outcome("return", resp.data, NoErr)
      [] resp.kind = "json" /\ resp.hasRet /\ resp.ret = 1015 /\ resp.errmsg = "login" ->
            Outcome("throw", NoData, Err("login", "", 1015, FALSE, TRUE))
      [] resp.kind = "json" /\ resp.hasRet /\ resp.ret = 5000 ->
            Outcome("throw", NoData, Err("balance", "", 5000, FALSE, FALSE))
      [] OTHER ->
            Outcome("throw", NoData,
                    Err("api_error", "", resp.ret, resp.errmsg = "genfail", TRUE))

\* The last value of `attempt` in `for (attempt = 0; attempt <= 3; attempt++)`.
LastAttempt == 3

\* setTimeout(r, 1000 * attempt)
BackoffMs_flat(attempt) == 1000

BackoffMs(attempt) == 1000 * attempt

\* How the attempt is summarised in rq_seen.
SeenTag(resp) ==
    CASE resp.kind = "transport" -> "transport"
      [] resp.kind = "text" -> IF looksLikeHtml(resp) THEN "html" ELSE "non_json"
      [] resp.kind = "json_null" -> "json_null"
      [] resp.kind = "json" /\ resp.hasRet /\ resp.ret # 0 -> "business"
      [] OTHER -> "ok"

\* platformRequest(...) up to its first fetch(): the loop starts with attempt = 0.
platformRequest_enter(platformKey) ==
    /\ rq_pc' = "http"
    /\ rq_platform' = platformKey
    /\ rq_attempt' = 0
    /\ rq_seen' = <<>>
    /\ rq_waits' = <<>>
    /\ rq_result' = NoOutcome

\* Some caller invokes platformRequest.
platformRequest_call(platformKey) ==
    /\ rq_pc = "idle"
    /\ platformRequest_enter(platformKey)
    /\ UNCHANGED <<now, poolVars, jobVars, pureVars>>

\* `if (attempt > 0) await new Promise((r) => setTimeout(r, 1000 * attempt))`
platformRequest_backoff ==
    /\ rq_pc = "backoff"
    /\ rq_waits' = Append(rq_waits, BackoffMs(rq_attempt))
    /\ now' = now + BackoffMs(rq_attempt)
    /\ rq_pc' = "http"
    /\ UNCHANGED <<rq_platform, rq_attempt, rq_seen, rq_result, poolVars, jobVars, pureVars>>

\* One fetch() and the classification of its response, then the catch block.
platformRequest_attempt(resp) ==
    /\ rq_pc = "http"
    /\ rq_seen' = Append(rq_seen, [tag |-> SeenTag(resp), ret |-> resp.ret,
                                    data |-> resp.data])
    /\ LET out == ClassifyResponse(rq_platform, resp) IN
         IF out.tag = "return"
         THEN /\ rq_pc' = "returned"
              /\ rq_result' = out
              /\ UNCHANGED rq_attempt
         ELSE IF out.err.isApiError \/ rq_attempt = LastAttempt
         THEN /\ rq_pc' = "thrown"
              /\ rq_result' = out
              /\ UNCHANGED rq_attempt
         ELSE /\ rq_pc' = "backoff"
              /\ rq_attempt' = rq_attempt + 1
              /\ UNCHANGED rq_result
    /\ UNCHANGED <<now, rq_platform, rq_waits, poolVars, jobVars, pureVars>>

ReqInit ==
    /\ rq_pc = "idle"
    /\ rq_platform = "jimeng"
    /\ rq_attempt = 0
    /\ rq_seen = <<>>
    /\ rq_waits = <<>>
    /\ rq_result = NoOutcome

(***************************************************************************)
(* BrowserService: the browser session pool                                *)
(***************************************************************************)
NProcs == 3        \* concurrent callers of the pool
NKeys == 2         \* session cache keys (platform, credential, cookie header)
MaxCalls == 4      \* fetch/refreshSession calls made in one behaviour
MaxContexts == 3   \* browser contexts created in one behaviour
MaxBrowsers == 2   \* browsers launched in one behaviour
MaxCrashes == 2    \* browser processes dying on their own in one behaviour

Procs == 1..NProcs
Keys == 1..NKeys

\* The caller of the single-caller specifications, and the key the callers
\* of SpecLock contend for.
Solo == {1}
LockKeys == {1}

\* Which platform a session key belongs to (getSessionCacheKey starts with it).
KeyPlatform(k) == IF k % 2 = 1 THEN "jimeng" ELSE "xyq"

\* What page.evaluate can hand back: the in-page fetch's body and content type.
PageResponses ==
    { Resp("json", FALSE, FALSE, TRUE, 0, "", GenData),
      Resp("json", FALSE, FALSE, TRUE, 0, "", NoData),
      Resp("json", FALSE, FALSE, FALSE, 0, "", NoData),
      Resp("json", FALSE, FALSE, TRUE, 4010, "", NoData),
      Resp("json", FALSE, FALSE, TRUE, 5000, "", NoData),
      Resp("json", FALSE, FALSE, TRUE, 1000, "other", NoData),
      Resp("text", TRUE, FALSE, FALSE, 0, "", NoData),
      Resp("text", FALSE, TRUE, FALSE, 0, "", NoData),
      Resp("text", FALSE, FALSE, FALSE, 0, "", NoData) }

NoResp == Resp("none", FALSE, FALSE, FALSE, 0, "", NoData)

\* What a pool call handed to its caller: a value or a thrown Error.
Result(tag, resp, err) == [tag |-> tag, resp |-> resp, err |-> err]

NoResult == Result("none", NoResp, NoErr)

looksLikeHtmlResponse(resp) == resp.ctHtml \/ resp.bodyHtml

\* isTargetClosedError: the message matches one of TARGET_CLOSED_PATTERNS.
isTargetClosedError(err) == err.kind = "target_closed"

\* The tail of BrowserService.fetch: JSON.parse of the body, or the error.
ParsePageResponse(platformKey, resp) ==
    IF resp.kind = "json"
    THEN Result("return", resp, NoErr)
    ELSE IF resp.kind = "json_null"
    THEN Result("return", resp, NoErr)
    ELSE IF looksLikeHtmlResponse(resp)
    THEN Result("throw", NoResp,
                Err("auth_html", SessionCookieField(platformKey), 0, FALSE, FALSE))
    ELSE Result("throw", NoResp, Err("non_json", "", 0, FALSE, FALSE))

IdleProc ==
    [pc |-> "idle", op |-> "none", key |-> 1, prev |-> 0, run |-> 0,
     attempt |-> 0, gsAttempt |-> 0, browser |-> 0, ctx |-> 0,
     recreations |-> 0, evlog |-> <<>>, result |-> NoResult]

PoolInit ==
    /\ browser = 0
    /\ connected = {}
    /\ launched = 0
    /\ contexts = <<>>
    /\ sessions = [k \in Keys |-> 0]
    /\ timers = {}
    /\ closing = {}
    /\ sessionLocks = [k \in Keys |-> 0]
    /\ nruns = 0
    /\ crashes = 0
    /\ procs = [p \in Procs |-> IdleProc]

IsOpen(c) == c # 0 /\ contexts[c].open

\* The contexts of browser b are gone once its process is.
CloseContextsOf(b) ==
    [c \in DOMAIN contexts |->
        IF contexts[c].browser = b THEN [contexts[c] EXCEPT !.open = FALSE]
        ELSE contexts[c]]

CloseContext(c) == [contexts EXCEPT ![c].open = FALSE]

\* resetAllSessions: clear the idle timer of every cached session, then the map.
TimersAfterReset == timers \ {sessions[k] : k \in Keys}

NoSessions == [k \in Keys |-> 0]

\* The run promise of p settles with `res`: the calls chained behind it may
\* start, `finally` drops the lock entry if it is still p's, and the result
\* is on its way to the caller.
FinishLogged(p, res, log) ==
    /\ procs' = [q \in Procs |->
            IF q = p
            THEN [IdleProc EXCEPT !.pc = "returned", !.op = procs[p].op,
                                  !.key = procs[p].key,
                                  !.recreations = procs[p].recreations,
                                  !.evlog = log, !.result = res]
            ELSE IF procs[q].pc = "queued" /\ procs[q].prev = procs[p].run
            THEN [procs[q] EXCEPT !.prev = 0]
            ELSE procs[q]]
    /\ sessionLocks' = IF sessionLocks[procs[p].key] = procs[p].run
                       THEN [sessionLocks EXCEPT ![procs[p].key] = 0]
                       ELSE sessionLocks

Finish(p, res) == FinishLogged(p, res, procs[p].evlog)

\* How an evaluation is summarised in evlog.
PageTag(r) ==
    IF r.kind = "json" THEN "json"
    ELSE IF looksLikeHtmlResponse(r) THEN "html" ELSE "non_json"

\* getSession hands `c` to its caller: fetch goes on to page.evaluate,
\* refreshSession returns the session.
SessionObtained(p, c) ==
    IF procs[p].op = "fetch"
    THEN /\ procs' = [procs EXCEPT ![p] = [@ EXCEPT !.pc = "evaluating", !.ctx = c]]
         /\ UNCHANGED sessionLocks
    ELSE Finish(p, Result("return", NoResp, NoErr))

\* runWithSessionLock up to `await run`: caller p chains its operation o
\* behind the last promise of key k.
runWithSessionLock(p, o, k) ==
    /\ nruns' = nruns + 1
    /\ sessionLocks' = [sessionLocks EXCEPT ![k] = nruns + 1]
    /\ procs' = [procs EXCEPT ![p] =
                    [IdleProc EXCEPT !.pc = "queued", !.op = o, !.key = k,
                                     !.prev = sessionLocks[k], !.run = nruns + 1]]
    /\ UNCHANGED <<browser, connected, launched, contexts, sessions, timers,
                   closing, crashes>>

\* Some caller invokes browserService.fetch or browserService.refreshSession.
bs_call(p, o, k) ==
    /\ procs[p].pc = "idle"
    /\ nruns < MaxCalls
    /\ runWithSessionLock(p, o, k)
    /\ UNCHANGED <<now, reqVars, jobVars, pureVars>>

\* The caller of the pool takes the value or the Error of its call.
bs_return(p) ==
    /\ procs[p].pc = "returned"
    /\ procs' = [procs EXCEPT ![p] = IdleProc]
    /\ UNCHANGED <<browser, connected, launched, contexts, sessions, timers,
                   closing, sessionLocks, nruns, crashes>>
    /\ UNCHANGED <<now, reqVars, jobVars, pureVars>>

\* previous.catch(() => undefined).then(() => fn()): fn starts once the
\* previous promise has settled.  fetch enters its loop; refreshSession
\* enters closeSessionByKey, which returns at once when nothing is cached.
bs_start(p) ==
    /\ procs[p].pc = "queued"
    /\ procs[p].prev = 0
    /\ LET k == procs[p].key
           s == sessions[k] IN
         IF procs[p].op = "fetch" \/ s = 0
         THEN /\ procs' = [procs EXCEPT ![p] = [@ EXCEPT !.pc = "gs_enter"]]
              /\ UNCHANGED timers
         ELSE /\ procs' = [procs EXCEPT ![p] = [@ EXCEPT !.pc = "rf_closing", !.ctx = s]]
              /\ timers' = timers \ {s}
    /\ UNCHANGED <<browser, connected, launched, contexts, sessions, closing,
                   sessionLocks, nruns, crashes>>
    /\ UNCHANGED <<now, reqVars, jobVars, pureVars>>

\* closeSessionByKey after `await session.context.close()`.
bs_closed(p) ==
    /\ procs[p].pc = "rf_closing"
    /\ contexts' = CloseContext(procs[p].ctx)
    /\ sessions' = [sessions EXCEPT ![procs[p].key] = 0]
    /\ sessionLocks' = [sessionLocks EXCEPT ![procs[p].key] = 0]
    /\ procs' = [procs EXCEPT ![p] = [@ EXCEPT !.pc = "gs_enter"]]
    /\ UNCHANGED <<browser, connected, launched, timers, closing,
                   nruns, crashes>>
    /\ UNCHANGED <<now, reqVars, jobVars, pureVars>>

\* getSession up to its loop: the cached session if its page is open.
bs_getSession(p) ==
    /\ procs[p].pc = "gs_enter"
    /\ LET k == procs[p].key
           existing == sessions[k] IN
         IF existing # 0 /\ IsOpen(existing)
         THEN /\ timers' = timers \cup {existing}
              /\ SessionObtained(p, existing)
              /\ UNCHANGED sessions
         ELSE /\ sessions' = [sessions EXCEPT ![k] = 0]
              /\ procs' = [procs EXCEPT ![p] = [@ EXCEPT !.pc = "gs_ensure", !.gsAttempt = 0]]
              /\ UNCHANGED <<timers, sessionLocks>>
    /\ UNCHANGED <<browser, connected, launched, contexts, closing, nruns, crashes>>
    /\ UNCHANGED <<now, reqVars, jobVars, pureVars>>

\* ensureBrowser up to `await chromium.launch`, or its return of this.browser.
bs_ensureBrowser(p) ==
    /\ procs[p].pc = "gs_ensure"
    /\ IF browser # 0 /\ browser \in connected
       THEN /\ procs' = [procs EXCEPT ![p] = [@ EXCEPT !.pc = "gs_newContext",
                                                        !.browser = browser]]
            /\ UNCHANGED browser
       ELSE /\ launched < MaxBrowsers
            /\ browser' = 0
            /\ procs' = [procs EXCEPT ![p] = [@ EXCEPT !.pc = "gs_launching"]]
    /\ UNCHANGED <<connected, launched, contexts, sessions, timers, closing,
                   sessionLocks, nruns, crashes>>
    /\ UNCHANGED <<now, reqVars, jobVars, pureVars>>

\* chromium.launch resolves: bindBrowserEvents, this.browser = browser.
bs_launched(p) ==
    /\ procs[p].pc = "gs_launching"
    /\ launched' = launched + 1
    /\ connected' = connected \cup {launched + 1}
    /\ browser' = launched + 1
    /\ procs' = [procs EXCEPT ![p] = [@ EXCEPT !.pc = "gs_newContext",
                                                !.browser = launched + 1]]
    /\ UNCHANGED <<contexts, sessions, timers, closing, sessionLocks,
                   nruns, crashes>>
    /\ UNCHANGED <<now, reqVars, jobVars, pureVars>>

\* The catch block of getSession (and of fetch, for page.evaluate) on a
\* target-closed error in its first attempt: recreateBrowser up to
\* `await oldBrowser.close()`, or to its end when there is no old browser.
RecreateBrowser(p, waitPc, nextPc, log) ==
    /\ browser' = 0
    /\ sessions' = NoSessions
    /\ timers' = TimersAfterReset
    /\ IF browser # 0
       THEN procs' = [procs EXCEPT ![p] = [@ EXCEPT !.pc = waitPc, !.browser = browser,
                                                     !.recreations = @ + 1,
                                                     !.evlog = log]]
       ELSE procs' = [procs EXCEPT ![p] =
                [@ EXCEPT !.pc = nextPc, !.recreations = @ + 1, !.evlog = log,
                          !.gsAttempt = IF nextPc = "gs_ensure" THEN 1 ELSE @,
                          !.attempt = IF nextPc = "gs_enter" THEN 1 ELSE @]]

GetSessionCatch(p, err) ==
    IF procs[p].gsAttempt = 0 /\ isTargetClosedError(err)
    THEN /\ RecreateBrowser(p, "gs_recreating", "gs_ensure", procs[p].evlog)
         /\ UNCHANGED sessionLocks
    ELSE /\ Finish(p, Result("throw", NoResp, err))
         /\ UNCHANGED <<browser, sessions, timers>>

\* browser.newContext resolves, or rejects: because the browser is gone, or
\* because the browser, which holds MaxContexts contexts in one behaviour,
\* has no room for another one.
bs_newContext(p) ==
    /\ procs[p].pc = "gs_newContext"
    /\ IF procs[p].browser \notin connected
       THEN /\ GetSessionCatch(p, Err("target_closed", "", 0, FALSE, FALSE))
            /\ UNCHANGED contexts
       ELSE IF Len(contexts) < MaxContexts
       THEN /\ contexts' = Append(contexts, [key |-> procs[p].key,
                                             browser |-> procs[p].browser,
                                             open |-> TRUE])
            /\ procs' = [procs EXCEPT ![p] = [@ EXCEPT !.pc = "gs_navigating",
                                                        !.ctx = Len(contexts) + 1]]
            /\ UNCHANGED <<browser, sessions, timers, sessionLocks>>
       ELSE /\ GetSessionCatch(p, Err("navigation", "", 0, FALSE, FALSE))
            /\ UNCHANGED contexts
    /\ UNCHANGED <<connected, launched, closing, nruns, crashes>>
    /\ UNCHANGED <<now, reqVars, jobVars, pureVars>>

\* addCookies, route, newPage, goto and the tolerated SDK wait are over: the
\* session is cached and its idle timer armed; or one of them rejected,
\* because the context is gone (target closed) or for another reason (a
\* navigation timeout).  When the context goes during the SDK wait, the
\* rejection is caught and the session is cached all the same.
bs_navigated(p, how) ==
    /\ procs[p].pc = "gs_navigating"
    /\ LET c == procs[p].ctx IN
         CASE how = "ok" ->
                /\ IsOpen(c)
                /\ timers' = timers \cup {c}
                /\ sessions' = [sessions EXCEPT ![procs[p].key] = c]
                /\ SessionObtained(p, c)
                /\ UNCHANGED browser
           [] how = "sdk_wait_failed" ->
                /\ ~IsOpen(c)
                /\ timers' = timers \cup {c}
                /\ sessions' = [sessions EXCEPT ![procs[p].key] = c]
                /\ SessionObtained(p, c)
                /\ UNCHANGED browser
           [] how = "target_closed" ->
                /\ ~IsOpen(c)
                /\ GetSessionCatch(p, Err("target_closed", "", 0, FALSE, FALSE))
           [] how = "error" ->
                /\ GetSessionCatch(p, Err("navigation", "", 0, FALSE, FALSE))
    /\ UNCHANGED <<connected, launched, contexts, closing, nruns, crashes>>
    /\ UNCHANGED <<now, reqVars, jobVars, pureVars>>

\* How the steps of getSession after newContext can end.
NavigationOutcomes == {"ok", "sdk_wait_failed", "target_closed", "error"}

\* The browser process b is gone: its contexts are closed and the
\* 'disconnected' handler runs (this.browser = null, resetAllSessions).
Disconnect(b) ==
    IF b \in connected
    THEN /\ connected' = connected \ {b}
         /\ contexts' = CloseContextsOf(b)
         /\ browser' = 0
         /\ sessions' = NoSessions
         /\ timers' = TimersAfterReset
    ELSE UNCHANGED <<connected, contexts, browser, sessions, timers>>

\* recreateBrowser after `await oldBrowser.close()`; the caller's loop goes on.
bs_recreated(p) ==
    /\ procs[p].pc \in {"gs_recreating", "fetch_recreating"}
    /\ Disconnect(procs[p].browser)
    /\ procs' = [procs EXCEPT ![p] =
            IF procs[p].pc = "gs_recreating"
            THEN [@ EXCEPT !.pc = "gs_ensure", !.gsAttempt = 1]
            ELSE [@ EXCEPT !.pc = "gs_enter", !.attempt = 1]]
    /\ UNCHANGED <<launched, closing, sessionLocks, nruns, crashes>>
    /\ UNCHANGED <<now, reqVars, jobVars, pureVars>>

\* Why page.evaluate can reject.
EvaluateFailures == {"failed_to_fetch", "target_closed", "context_destroyed"}

\* page.evaluate resolves with the in-page response: the tail of fetch.
bs_evaluated(p, r) ==
    /\ procs[p].pc = "evaluating"
    /\ IsOpen(procs[p].ctx)
    /\ FinishLogged(p, ParsePageResponse(KeyPlatform(procs[p].key), r),
                    Append(procs[p].evlog, PageTag(r)))
    /\ UNCHANGED <<browser, connected, launched, contexts, sessions, timers,
                   closing, nruns, crashes>>
    /\ UNCHANGED <<now, reqVars, jobVars, pureVars>>

\* page.evaluate rejects: the catch block of fetch.
bs_evaluateFailed(p, why) ==
    /\ procs[p].pc = "evaluating"
    /\ CASE why = "failed_to_fetch" ->
                /\ FinishLogged(p, Result("throw", NoResp,
                                          Err("request_failed", "", 0, FALSE, FALSE)),
                                Append(procs[p].evlog, why))
                /\ UNCHANGED <<browser, sessions, timers>>
         [] why = "context_destroyed" ->
                /\ FinishLogged(p, Result("throw", NoResp,
                                          Err("context_destroyed", "", 0, FALSE, FALSE)),
                                Append(procs[p].evlog, why))
                /\ UNCHANGED <<browser, sessions, timers>>
         [] why = "target_closed" ->
                /\ ~IsOpen(procs[p].ctx)
                /\ IF procs[p].attempt = 0
                   THEN /\ RecreateBrowser(p, "fetch_recreating", "gs_enter",
                                           Append(procs[p].evlog, why))
                        /\ UNCHANGED sessionLocks
                   ELSE /\ FinishLogged(p, Result("throw", NoResp,
                                                  Err("target_closed", "", 0, FALSE, FALSE)),
                                        Append(procs[p].evlog, why))
                        /\ UNCHANGED <<browser, sessions, timers>>
    /\ UNCHANGED <<connected, launched, contexts, closing, nruns, crashes>>
    /\ UNCHANGED <<now, reqVars, jobVars, pureVars>>

\* The idle timer of session c fires: closeSessionByKey(cacheKey) up to
\* `await session.context.close()`, on whatever session the key holds now.
idleTimer_fire(c) ==
    /\ c \in timers
    /\ LET k == contexts[c].key
           s == sessions[k] IN
         IF s = 0
         THEN /\ timers' = timers \ {c}
              /\ UNCHANGED closing
         ELSE /\ timers' = timers \ {c, s}
              /\ closing' = closing \cup {[key |-> k, ctx |-> s]}
    /\ UNCHANGED <<browser, connected, launched, contexts, sessions,
                   sessionLocks, nruns, crashes, procs>>
    /\ UNCHANGED <<now, reqVars, jobVars, pureVars>>

\* ... and after it: sessions.delete(cacheKey), sessionLocks.delete(cacheKey).
idleTimer_closed(cl) ==
    /\ cl \in closing
    /\ closing' = closing \ {cl}
    /\ contexts' = CloseContext(cl.ctx)
    /\ sessions' = [sessions EXCEPT ![cl.key] = 0]
    /\ sessionLocks' = [sessionLocks EXCEPT ![cl.key] = 0]
    /\ UNCHANGED <<browser, connected, launched, timers, nruns,
                   crashes, procs>>
    /\ UNCHANGED <<now, reqVars, jobVars, pureVars>>

\* A browser process dies on its own.
browser_disconnected(b) ==
    /\ b \in connected
    /\ crashes < MaxCrashes
    /\ crashes' = crashes + 1
    /\ Disconnect(b)
    /\ UNCHANGED <<launched, closing, sessionLocks, nruns, procs>>
    /\ UNCHANGED <<now, reqVars, jobVars, pureVars>>

(***************************************************************************)
(* The task registry and the direct-model flow (generateSeedanceVideo)     *)
(* for a submission without reference images.                              *)
(***************************************************************************)
\* The configured wall-clock limit of one generation, in ms.
VIDEO_GENERATION_TIMEOUT_MS == 12000

maxGenerateAttempts == 3

\* Math.max(60, Math.ceil(VIDEO_GENERATION_TIMEOUT_MS / 2000))
maxRetries ==
    LET ceil == (VIDEO_GENERATION_TIMEOUT_MS + 1999) \div 2000 IN
    IF 60 > ceil THEN 60 ELSE ceil

Min(a, b) == IF a < b THEN a ELSE b

\* The pool caller and the session key of the job, and the job's task id.
JobProc == CHOOSE p \in Solo : TRUE
JobKey == CHOOSE k \in LockKeys : TRUE
JobId == "task_1"

NoTask ==
    [status |-> "none", progress |-> "", result |-> "", error |-> NoErr,
     startTime |-> 0]

\* The task object the submit handler puts into the registry at time t.
NewTask_unset(t) ==
    [status |-> "none", progress |-> "", result |-> "", error |-> NoErr,
     startTime |-> t]

NewTask(t) ==
    [status |-> "processing", progress |-> "preparing", result |-> "",
     error |-> NoErr, startTime |-> t]

\* The requests of the agent flow.
AgentEndpoints ==
    {"user_info", "get_user_workspace", "submit_run", "get_thread",
     "get_run_artifact", "asset_detail"}

IdleJob ==
    [pc |-> "none", attempt |-> 0, retryCount |-> 0, status |-> 0,
     fail_code |-> 0, item |-> FALSE, url |-> FALSE, wait |-> 0,
     submits |-> 0, answers |-> <<>>, refreshes |-> 0, pollErr |-> NoErr,
     hq |-> "none",
     via |-> "none", uid |-> "", ws |-> "", artifact |-> "", pollStart |-> 0,
     videoUrl |-> "",
     sent |-> [e \in AgentEndpoints |-> 0],
     files |-> 0, uploaded |-> 0, steps |-> <<>>, got |-> <<>>]

NoReply == [code |-> 0, status |-> "", body |-> ""]

JobInit ==
    /\ tasks = {}
    /\ task = NoTask
    /\ job = IdleJob
    /\ purges = {}
    /\ reply = NoReply
    /\ firstSeen = -1

\* An Error the flow itself throws; `fail` says whether its message contains
\* "内容被过滤" or "生成失败".
JobErr(kind, ret, fail) == Err(kind, "", ret, fail, FALSE)

\* String(generateResult?.ret ?? ''), with -1 for the empty string.
RetCodeOf(resp) == IF resp.hasRet THEN resp.ret ELSE -1

\* `retCode === '4010' && attempt < maxGenerateAttempts - 1`
NeedRefreshSession_anyCode(retCode, attempt) == attempt < maxGenerateAttempts - 1

NeedRefreshSession(retCode, attempt) ==
    retCode = 4010 /\ attempt < maxGenerateAttempts - 1

\* `elapsedMs >= VIDEO_GENERATION_TIMEOUT_MS`
TimedOut_never(elapsedMs) == FALSE

TimedOut(elapsedMs) == elapsedMs >= VIDEO_GENERATION_TIMEOUT_MS

\* task.progress while the vendor reports status 20.
ProgressText(elapsedMs) ==
    IF elapsedMs \div 1000 < 120 THEN "generating" ELSE "waited"

\* What GET /api/task/:taskId assigns to the task object: nothing.
PolledTask_touched(t) == [t EXCEPT !.progress = "polled"]

PolledTask(t) == t

\* platformRequest has handed its result to the flow.
rq_reset ==
    /\ rq_pc' = "idle"
    /\ rq_attempt' = 0
    /\ rq_seen' = <<>>
    /\ rq_waits' = <<>>
    /\ rq_result' = NoOutcome
    /\ UNCHANGED rq_platform

\* The .catch handler of the generator's promise.
Rejected_unhandled(t, j, err) ==
    /\ task' = t
    /\ job' = [j EXCEPT !.pc = "settled"]

Rejected(t, j, err) ==
    /\ task' = [t EXCEPT !.status = "error", !.error = err]
    /\ job' = [j EXCEPT !.pc = "settled"]

\* The .then handler of the generator's promise.
Fulfilled(t, j, videoUrl) ==
    /\ task' = [t EXCEPT !.status = "done", !.result = videoUrl]
    /\ job' = [j EXCEPT !.pc = "settled"]

\* The fallback to the preview URL of the last poll.
PreviewUrl_ignored(t, j) == Rejected(t, j, JobErr("no_video_url", 0, FALSE))

PreviewUrl(t, j) ==
    IF j.url THEN Fulfilled(t, j, "preview")
    ELSE Rejected(t, j, JobErr("no_video_url", 0, FALSE))

\* After the polling loop: the timeout, or the request for the HD URL.
AfterPolling(t, j) ==
    IF j.status = 20
    THEN /\ Rejected(t, j, JobErr("timeout", 0, FALSE))
         /\ rq_reset
    ELSE LET t2 == [t EXCEPT !.progress = "hd"] IN
         IF j.item
         THEN /\ platformRequest_enter("jimeng")
              /\ task' = t2
              /\ job' = [j EXCEPT !.pc = "hq"]
         ELSE /\ PreviewUrl(t2, j)
              /\ rq_reset

\* The head of the polling loop at time `clock`: its condition, and the
\* timeout check that opens its body.
LoopHead(t, j, clock) ==
    IF j.retryCount < maxRetries /\ j.status = 20 /\ ~TimedOut(clock - t.startTime)
    THEN /\ platformRequest_enter("jimeng")
         /\ task' = t
         /\ job' = [j EXCEPT !.pc = "polling"]
    ELSE AfterPolling(t, j)

\* `retryCount++`, then the head of the loop.
NextIteration(t, j, clock) ==
    LoopHead(t, [j EXCEPT !.retryCount = @ + 1], clock)

\* The loop body awaits a timer of `w` ms.
PollWait(t, j, w) ==
    /\ task' = t
    /\ job' = [j EXCEPT !.pc = "poll_wait", !.wait = w]
    /\ rq_reset

\* The catch block of the polling loop.
PollCatch(t, j, err) ==
    IF err.vendorFail
    THEN /\ Rejected(t, j, err)
         /\ rq_reset
    ELSE PollWait(t, j, 2000 * (j.retryCount + 1))

\* The submit loop calls browserService.fetch.
SubmitFetch(t, j) ==
    /\ runWithSessionLock(JobProc, "fetch", JobKey)
    /\ task' = t
    /\ job' = [j EXCEPT !.pc = "submitting", !.submits = @ + 1]

\* What the vendor answers to the requests of the flow's polls and HD call:
\* a transport failure, an HTML page, ret 0 with each payload, and the
\* business codes 1015 (login), 4010 and 1000.
JobResponses ==
    { Resp("transport", FALSE, FALSE, FALSE, 0, "", NoData),
      Resp("text", TRUE, FALSE, FALSE, 0, "", NoData),
      Resp("json", FALSE, FALSE, TRUE, 1015, "login", NoData),
      Resp("json", FALSE, FALSE, TRUE, 4010, "", NoData),
      Resp("json", FALSE, FALSE, TRUE, 1000, "genfail", NoData),
      Resp("json", FALSE, FALSE, TRUE, 1000, "other", NoData) }
    \cup { Resp("json", FALSE, FALSE, TRUE, 0, "", d) : d \in Payloads }

(***************************************************************************)
(* The agent flow (generateXyqAgentVideo) over platformRequestViaBrowser.  *)
(***************************************************************************)
\* The session key of an agent-flow job.
AgentKey == CHOOSE k \in Keys : KeyPlatform(k) = "xyq"

\* `d?.f || ''`: the member f of an answer, or the empty string.
Opt(d, f) == IF f \in DOMAIN d THEN d[f] ELSE ""

\* The members of an agent-platform answer the flow looks for.
AgentData(uid, ws, state, artifact, asset, url) ==
    [consumer_uid |-> uid, workspace_id |-> ws, state |-> state,
     artifact_id |-> artifact, pippit_asset_id |-> asset, download_url |-> url]

AgentPayloads ==
    { AgentData("uid", "ws", "", "", "", ""),
      AgentData("uid", "", "", "", "", ""),
      AgentData("", "ws", "", "", "", ""),
      AgentData("", "", "1", "", "", ""),
      AgentData("", "", "3", "artifact", "", ""),
      AgentData("", "", "3", "", "", ""),
      AgentData("", "", "4", "", "", ""),
      [fail_reason |-> "quota"] @@ AgentData("", "", "4", "", "", ""),
      [error_message |-> "moderation"] @@ AgentData("", "", "4", "", "", ""),
      AgentData("", "", "", "", "asset", ""),
      AgentData("", "", "", "", "", "video_url") }

\* What the agent platform answers in the page beyond PageResponses: ret 0
\* with each payload, a payload without ret, and the login code.
AgentResponses ==
    { Resp("json", FALSE, FALSE, TRUE, 0, "", d) : d \in AgentPayloads }
    \cup { Resp("json", FALSE, FALSE, FALSE, 0, "", AgentData("uid", "ws", "", "", "", "")),
           Resp("json", FALSE, FALSE, TRUE, 1015, "login", NoData) }

\* The tail of platformRequestViaBrowser: what it makes of the result of
\* browserService.fetch.
\* `result?.ret !== undefined`: a ret that is a finite number (hasRet), or a
\* ret that is not one, whose text is then in ret_text.
RetDefined(resp) == resp.hasRet \/ Opt(resp, "ret_text") # ""

ViaBrowserOutcome(res) ==
    IF res.tag = "throw" THEN Outcome("throw", NoData, res.err)
    ELSE IF ~RetDefined(res.resp) \/ (res.resp.hasRet /\ res.resp.ret = 0)
    THEN Outcome("return", res.resp.data, NoErr)
    ELSE IF res.resp.hasRet /\ res.resp.ret = 1015 /\ res.resp.errmsg = "login"
    THEN Outcome("throw", NoData, Err("login", "", 1015, FALSE, FALSE))
    ELSE IF res.resp.hasRet /\ res.resp.ret = 5000
    THEN Outcome("throw", NoData, Err("balance", "", 5000, FALSE, FALSE))
    ELSE Outcome("throw", NoData,
                 Err("api_error", "", res.resp.ret, res.resp.errmsg = "genfail", FALSE))

\* The catch block of platformRequestViaBrowser: is the failed fetch to be
\* repeated after a refresh of the session?
RetryViaBrowser_always(err) == TRUE

RetryViaBrowser(err) == err.kind = "context_destroyed"

\* platformRequestViaBrowser(e) up to its browserService.fetch.
ViaBrowser(t, j, e) ==
    /\ runWithSessionLock(JobProc, "fetch", AgentKey)
    /\ task' = t
    /\ job' = [j EXCEPT !.pc = e, !.via = "fetch", !.sent[e] = @ + 1]

\* The flow goes on without a call of the pool.
PoolReleased ==
    /\ procs' = [procs EXCEPT ![JobProc] = IdleProc]
    /\ UNCHANGED <<sessionLocks, nruns>>

\* `if (!consumerUid || !workspaceId) throw`, else submit_run.
SubmitRun_unchecked(t, j) ==
    ViaBrowser([t EXCEPT !.progress = "submitting_run"], j, "submit_run")

SubmitRun(t, j) ==
    IF j.uid = "" \/ j.ws = ""
    THEN /\ Rejected(t, j, JobErr("no_identity", 0, FALSE))
         /\ PoolReleased
    ELSE ViaBrowser([t EXCEPT !.progress = "submitting_run"], j, "submit_run")

\* The asset detail's URL, or the error when there is none.
VideoUrl_unchecked(t, j, assetDetail) ==
    Fulfilled(t, j, Opt(assetDetail, "download_url"))

VideoUrl(t, j, assetDetail) ==
    IF Opt(assetDetail, "download_url") = ""
    THEN Rejected(t, j, JobErr("no_video_url", 0, FALSE))
    ELSE Fulfilled(t, j, Opt(assetDetail, "download_url"))

\* `run?.fail_reason || run?.error_message || ... || '未知错误'`
FailReason(d) ==
    IF Opt(d, "fail_reason") # "" THEN Opt(d, "fail_reason")
    ELSE IF Opt(d, "error_message") # "" THEN Opt(d, "error_message")
    ELSE "unknown"

\* new Error(`小云雀生成失败: ${failReason}`)
AgentFailed(d) == [reason |-> FailReason(d)] @@ JobErr("agent_failed", 0, TRUE)

\* After the polling loop of the agent flow.
AfterThread_unchecked(t, j) ==
    ViaBrowser([t EXCEPT !.progress = "parsing"], j, "get_run_artifact")

AfterThread(t, j) ==
    IF j.artifact = ""
    THEN /\ Rejected(t, j, JobErr("no_artifact", 0, FALSE))
         /\ PoolReleased
    ELSE ViaBrowser([t EXCEPT !.progress = "parsing"], j, "get_run_artifact")

\* `while (Date.now() - pollStart < VIDEO_GENERATION_TIMEOUT_MS)` and the
\* timer that opens its body.
ThreadLoop(t, j) ==
    IF now - j.pollStart < VIDEO_GENERATION_TIMEOUT_MS
    THEN /\ task' = t
         /\ job' = [j EXCEPT !.pc = "thread_wait", !.wait = 2000]
         /\ PoolReleased
    ELSE AfterThread(t, j)

\* What generateXyqAgentVideo does with the outcome of the call it awaited.
AgentStep(t, j, out) ==
    LET thrown == out.tag = "throw"
        d == out.data IN
    CASE j.pc = "user_info" ->
            IF thrown /\ out.err.kind = "login"
            THEN Rejected(t, j, out.err) /\ PoolReleased
            ELSE ViaBrowser(t, [j EXCEPT !.uid = IF thrown THEN "" ELSE Opt(d, "consumer_uid"),
                                         !.ws = IF thrown THEN "" ELSE Opt(d, "workspace_id")],
                            "get_user_workspace")
      [] j.pc = "get_user_workspace" ->
            IF thrown /\ out.err.kind = "login"
            THEN Rejected(t, j, out.err) /\ PoolReleased
            ELSE SubmitRun(t, [j EXCEPT
                    !.uid = IF @ # "" \/ thrown THEN @ ELSE Opt(d, "consumer_uid"),
                    !.ws = IF @ # "" \/ thrown THEN @ ELSE Opt(d, "workspace_id")])
      [] j.pc = "submit_run" ->
            IF thrown
            THEN Rejected(t, j, out.err) /\ PoolReleased
            ELSE ThreadLoop([t EXCEPT !.progress = "submitted"],
                            [j EXCEPT !.pollStart = now])
      [] j.pc = "get_thread" ->
            IF thrown
            THEN Rejected(t, j, out.err) /\ PoolReleased
            ELSE IF Opt(d, "state") = "3"
            THEN AfterThread(t, [j EXCEPT !.artifact = Opt(d, "artifact_id")])
            ELSE IF Opt(d, "state") = "4"
            THEN Rejected(t, j, AgentFailed(d)) /\ PoolReleased
            ELSE ThreadLoop([t EXCEPT !.progress = ProgressText(now - t.startTime)], j)
      [] j.pc = "get_run_artifact" ->
            IF thrown
            THEN Rejected(t, j, out.err) /\ PoolReleased
            ELSE IF Opt(d, "pippit_asset_id") = ""
            THEN Rejected(t, j, JobErr("no_asset_id", 0, FALSE)) /\ PoolReleased
            ELSE ViaBrowser([t EXCEPT !.progress = "asset_detail"], j, "asset_detail")
      [] j.pc = "asset_detail" ->
            /\ IF thrown
               THEN Rejected(t, j, out.err)
               ELSE VideoUrl(t, [j EXCEPT !.videoUrl = Opt(d, "download_url")], d)
            /\ PoolReleased

\* browserService.fetch of platformRequestViaBrowser has settled: its catch
\* block, or its tail and the flow behind it.
xyq_fetched ==
    /\ job.pc \in AgentEndpoints
    /\ job.via \in {"fetch", "refetch"}
    /\ procs[JobProc].pc = "returned"
    /\ LET res == procs[JobProc].result IN
         IF res.tag = "throw" /\ job.via = "fetch" /\ RetryViaBrowser(res.err)
         THEN /\ runWithSessionLock(JobProc, "refresh", AgentKey)
              /\ job' = [job EXCEPT !.via = "refresh"]
              /\ UNCHANGED task
         ELSE /\ AgentStep(task, [job EXCEPT !.via = "none"], ViaBrowserOutcome(res))
              /\ UNCHANGED <<browser, connected, launched, contexts, sessions,
                             timers, closing, crashes>>
    /\ UNCHANGED <<now, reqVars, tasks, purges, reply, firstSeen, pureVars>>

\* browserService.refreshSession of the catch block has settled: the second
\* browserService.fetch, outside any try.
xyq_refreshed ==
    /\ job.pc \in AgentEndpoints
    /\ job.via = "refresh"
    /\ procs[JobProc].pc = "returned"
    /\ LET res == procs[JobProc].result IN
         IF res.tag = "throw"
         THEN /\ AgentStep(task, [job EXCEPT !.via = "none"],
                           Outcome("throw", NoData, res.err))
              /\ UNCHANGED <<browser, connected, launched, contexts, sessions,
                             timers, closing, crashes>>
         ELSE /\ runWithSessionLock(JobProc, "fetch", AgentKey)
              /\ job' = [job EXCEPT !.via = "refetch", !.sent[job.pc] = @ + 1]
              /\ UNCHANGED task
    /\ UNCHANGED <<now, reqVars, tasks, purges, reply, firstSeen, pureVars>>

\* The 2 s of the polling loop are over: get_thread.
xyq_threadWaited ==
    /\ job.pc = "thread_wait"
    /\ now' = now + job.wait
    /\ ViaBrowser(task, [job EXCEPT !.wait = 0], "get_thread")
    /\ UNCHANGED <<reqVars, tasks, purges, reply, firstSeen, pureVars>>

\* page.evaluate of an agent-flow request resolves with an agent answer.
xyq_evaluated(r) ==
    /\ job.pc \in AgentEndpoints
    /\ bs_evaluated(JobProc, r)

\* The promise of a generator that threw before its first await is rejected:
\* the .catch handler runs before any other handler.
gen_rejected ==
    /\ job.pc = "rejecting"
    /\ Rejected(task, job, JobErr("no_prompt", 0, FALSE))
    /\ UNCHANGED <<now, reqVars, poolVars, tasks, purges, reply, firstSeen, pureVars>>

(***************************************************************************)
(* Reference images: uploadImageBuffer and the upload loop of              *)
(* generateSeedanceVideo.                                                  *)
(***************************************************************************)
\* How many reference images a submission carries at most.
MaxFiles == 2

\* The answer of get_upload_token with its credentials.
TokenData == [access_key_id |-> "ak", secret_access_key |-> "sk",
              session_token |-> "st"]

\* `!access_key_id || !secret_access_key || !session_token`
TokenMissing(tokenResult) ==
    \/ Opt(tokenResult, "access_key_id") = ""
    \/ Opt(tokenResult, "secret_access_key") = ""
    \/ Opt(tokenResult, "session_token") = ""

\* What the platform answers to get_upload_token.
TicketResponses ==
    { Resp("transport", FALSE, FALSE, FALSE, 0, "", NoData),
      Resp("text", TRUE, FALSE, FALSE, 0, "", NoData),
      Resp("json", FALSE, FALSE, TRUE, 1015, "login", NoData),
      Resp("json", FALSE, FALSE, TRUE, 1000, "other", NoData),
      Resp("json", FALSE, FALSE, TRUE, 0, "", NoData),
      Resp("json", FALSE, FALSE, TRUE, 0, "", TokenData) }

\* What a fetch() of the image service yields: a rejection, a status that is
\* not ok, a body that is not JSON, ResponseMetadata.Error, or a JSON result
\* with or without upload addresses, with or without Results, whose first
\* entry has the given UriStatus.
Ans(kind, address, results, status) ==
    [kind |-> kind, address |-> address, results |-> results, UriStatus |-> status]

FetchAnswers ==
    { Ans("rejected", FALSE, FALSE, 0),
      Ans("not_ok", FALSE, FALSE, 0),
      Ans("not_json", FALSE, FALSE, 0),
      Ans("error", FALSE, FALSE, 0),
      Ans("ok", FALSE, FALSE, 0),
      Ans("ok", TRUE, FALSE, 0),
      Ans("ok", FALSE, TRUE, 2001),
      Ans("ok", FALSE, TRUE, 2000) }

\* ApplyImageUpload went through and names a store and a host.
ApplyOk(a) == a.kind = "ok" /\ a.address

\* The POST of the bytes went through: only `ok` is looked at.
ByteUploadOk_always(a) == TRUE

ByteUploadOk(a) == a.kind \notin {"rejected", "not_ok"}

\* CommitImageUpload went through and its first result is uploaded.
CommitOk_anyStatus(a) == a.kind = "ok" /\ a.results

CommitOk(a) == a.kind = "ok" /\ a.results /\ a.UriStatus = 2000

\* Step `s` of the upload of file `f` is issued.
Issue(j, f, s) == [j EXCEPT !.pc = s, !.steps = Append(@, <<f, s>>)]

\* An upload step failed: uploadImageBuffer throws, and so does the flow.
UploadFailed(t, j, kind) ==
    /\ Rejected(t, j, JobErr(kind, 0, FALSE))
    /\ UNCHANGED poolVars

\* The head of `for (let i = 0; i < files.length; i++)`: the next
\* uploadImageBuffer up to its platformRequest, or the rest of the flow up
\* to the submit.
UploadLoop_oneTicket(t, j) ==
    IF j.uploaded < j.files
    THEN /\ IF j.uploaded = 0 THEN platformRequest_enter("jimeng") ELSE rq_reset
         /\ task' = [t EXCEPT !.progress = "uploading"]
         /\ job' = Issue(j, j.uploaded + 1, IF j.uploaded = 0 THEN "ticket" ELSE "apply")
         /\ UNCHANGED poolVars
    ELSE /\ SubmitFetch(t, j)
         /\ rq_reset

UploadLoop(t, j) ==
    IF j.uploaded < j.files
    THEN /\ platformRequest_enter("jimeng")
         /\ task' = [t EXCEPT !.progress = "uploading"]
         /\ job' = Issue(j, j.uploaded + 1, "ticket")
         /\ UNCHANGED poolVars
    ELSE /\ SubmitFetch(t, j)
         /\ rq_reset

\* platformRequest for the upload token has settled: the credentials are
\* checked and ApplyImageUpload is fetched.
up_ticketed ==
    /\ job.pc = "ticket"
    /\ rq_pc \in {"returned", "thrown"}
    /\ rq_reset
    /\ LET j == [job EXCEPT !.got = Append(@, [kind |-> rq_pc, data |-> rq_result.data])] IN
         IF rq_pc = "thrown"
         THEN UploadFailed(task, j, rq_result.err.kind)
         ELSE IF TokenMissing(rq_result.data)
         THEN UploadFailed(task, j, "no_upload_token")
         ELSE /\ job' = Issue(j, j.uploaded + 1, "apply")
              /\ UNCHANGED <<task, poolVars>>
    /\ UNCHANGED <<now, tasks, purges, reply, firstSeen, pureVars>>

\* A fetch() of the image service has settled: the checks behind it, and
\* the next step, the next file or the submit.
up_answered(a) ==
    /\ job.pc \in {"apply", "upload", "commit"}
    /\ LET j == [job EXCEPT !.got = Append(@, a)] IN
         CASE job.pc = "apply" ->
                IF ApplyOk(a)
                THEN /\ job' = Issue(j, j.uploaded + 1, "upload")
                     /\ UNCHANGED <<task, poolVars, reqVars>>
                ELSE UploadFailed(task, j, "apply_failed") /\ UNCHANGED reqVars
           [] job.pc = "upload" ->
                IF ByteUploadOk(a)
                THEN /\ job' = Issue(j, j.uploaded + 1, "commit")
                     /\ UNCHANGED <<task, poolVars, reqVars>>
                ELSE UploadFailed(task, j, "upload_failed") /\ UNCHANGED reqVars
           [] job.pc = "commit" ->
                IF CommitOk(a)
                THEN UploadLoop(task, [j EXCEPT !.uploaded = @ + 1])
                ELSE UploadFailed(task, j, "commit_failed") /\ UNCHANGED reqVars
    /\ UNCHANGED <<now, tasks, purges, reply, firstSeen, pureVars>>

\* What POST /api/generate-video can be sent.
Requests ==
    [platform : {"jimeng", "xyq", "unsupported"}, session : BOOLEAN,
     prompt : BOOLEAN, files : 0 .. MaxFiles]

\* The submissions without reference images that are not for the agent
\* platform, and those for either platform.
Submissions == {r \in Requests : r.platform # "xyq" /\ r.files = 0}

FlowSubmissions == {r \in Requests : r.platform = "jimeng" => r.files = 0}

\* The submissions to the direct-model platform that the handler accepts.
ImageSubmissions ==
    {r \in Requests : r.platform = "jimeng" /\ r.session /\ (r.prompt \/ r.files > 0)}

\* POST /api/generate-video: the handler, and for an accepted submission
\* the generator up to its first await.
api_generate_video(req) ==
    /\ IF req.platform \notin PLATFORM_CONFIGS
       THEN /\ reply' = [code |-> 400, status |-> "unsupported_platform", body |-> ""]
            /\ UNCHANGED <<tasks, task, job, poolVars, reqVars>>
       ELSE IF ~req.session
       THEN /\ reply' = [code |-> 401, status |-> "no_session", body |-> ""]
            /\ UNCHANGED <<tasks, task, job, poolVars, reqVars>>
       ELSE IF ~req.prompt /\ req.files = 0
       THEN /\ reply' = [code |-> 400, status |-> "empty_request", body |-> ""]
            /\ UNCHANGED <<tasks, task, job, poolVars, reqVars>>
       ELSE /\ task.status = "none"
            /\ procs[JobProc].pc = "idle"
            /\ tasks' = tasks \cup {JobId}
            /\ reply' = [code |-> 200, status |-> "accepted", body |-> JobId]
            /\ IF req.platform = "xyq"
               THEN /\ UNCHANGED reqVars
                    /\ IF req.prompt
                       THEN ViaBrowser([NewTask(now) EXCEPT !.progress = "user_info"],
                                       IdleJob, "user_info")
                       ELSE /\ task' = NewTask(now)
                            /\ job' = [IdleJob EXCEPT !.pc = "rejecting"]
                            /\ UNCHANGED poolVars
               ELSE IF req.files > 0
               THEN UploadLoop(NewTask(now), [IdleJob EXCEPT !.files = req.files])
               ELSE /\ SubmitFetch([NewTask(now) EXCEPT !.progress = "text_mode"], IdleJob)
                    /\ UNCHANGED reqVars
    /\ UNCHANGED <<now, purges, firstSeen, pureVars>>

\* browserService.fetch of the submit loop has settled: the rest of the
\* iteration, and after the loop the parsing of generateResult.
gen_submitted ==
    /\ job.pc = "submitting"
    /\ procs[JobProc].pc = "returned"
    /\ LET res == procs[JobProc].result
           retCode == RetCodeOf(res.resp)
           j == [job EXCEPT !.answers = Append(@, retCode)] IN
         IF res.tag = "throw"
         THEN /\ Rejected(task, job, res.err)
              /\ procs' = [procs EXCEPT ![JobProc] = IdleProc]
              /\ UNCHANGED <<sessionLocks, nruns>>
         ELSE IF retCode # 0 /\ NeedRefreshSession(retCode, job.attempt)
                 /\ job.attempt + 1 < maxGenerateAttempts
         THEN /\ runWithSessionLock(JobProc, "refresh", JobKey)
              /\ task' = [task EXCEPT !.progress = "refreshing"]
              /\ job' = [j EXCEPT !.pc = "refreshing", !.attempt = @ + 1,
                                  !.refreshes = @ + 1]
         ELSE /\ procs' = [procs EXCEPT ![JobProc] = IdleProc]
              /\ UNCHANGED <<sessionLocks, nruns>>
              /\ IF res.resp.hasRet /\ retCode # 0
                 THEN Rejected(task, j,
                        IF retCode = 5000 THEN JobErr("insufficient_credits", 5000, FALSE)
                        ELSE IF retCode = 4010 THEN JobErr("security_check", 4010, FALSE)
                        ELSE JobErr("api_error", retCode, res.resp.errmsg = "genfail"))
                 ELSE IF ~res.resp.data.history_record_id
                 THEN Rejected(task, j, JobErr("no_record_id", 0, FALSE))
                 ELSE /\ task' = [task EXCEPT !.progress = "submitted"]
                      /\ job' = [j EXCEPT !.pc = "warmup", !.wait = 5000]
    /\ UNCHANGED <<browser, connected, launched, contexts, sessions, timers,
                   closing, crashes>>
    /\ UNCHANGED <<now, reqVars, tasks, purges, reply, firstSeen, pureVars>>

\* browserService.refreshSession has settled.
gen_refreshed ==
    /\ job.pc = "refreshing"
    /\ procs[JobProc].pc = "returned"
    /\ procs' = [procs EXCEPT ![JobProc] = IdleProc]
    /\ IF procs[JobProc].result.tag = "throw"
       THEN Rejected(task, job, procs[JobProc].result.err)
       ELSE /\ job' = [job EXCEPT !.pc = "refresh_wait", !.wait = 1200]
            /\ UNCHANGED task
    /\ UNCHANGED <<browser, connected, launched, contexts, sessions, timers,
                   closing, sessionLocks, nruns, crashes>>
    /\ UNCHANGED <<now, reqVars, tasks, purges, reply, firstSeen, pureVars>>

\* The 1200 ms after the refresh are over: the next browserService.fetch.
gen_refreshWaited ==
    /\ job.pc = "refresh_wait"
    /\ now' = now + job.wait
    /\ SubmitFetch(task, [job EXCEPT !.wait = 0])
    /\ UNCHANGED <<reqVars, tasks, purges, reply, firstSeen, pureVars>>

\* The 5000 ms before the first poll are over: status = 20, the loop starts.
gen_warmedUp ==
    /\ job.pc = "warmup"
    /\ now' = now + job.wait
    /\ LoopHead(task, [job EXCEPT !.wait = 0, !.status = 20, !.retryCount = 0], now')
    /\ UNCHANGED <<poolVars, tasks, purges, reply, firstSeen, pureVars>>

\* platformRequest of a poll has settled: the rest of the loop body.
gen_polled ==
    /\ job.pc = "polling"
    /\ rq_pc \in {"returned", "thrown"}
    /\ IF rq_pc = "returned"
       THEN LET historyData == rq_result.data IN
            IF historyData.hist = "missing"
            THEN PollWait(task, job, Min(2000 * (job.retryCount + 1), 30000))
            ELSE LET j == [job EXCEPT !.status = historyData.status,
                                      !.fail_code = historyData.fail_code,
                                      !.item = historyData.item,
                                      !.url = historyData.url] IN
                 IF j.status = 30
                 THEN PollCatch(task, j,
                        IF j.fail_code = 2038
                        THEN JobErr("content_filtered", 0, TRUE)
                        ELSE JobErr("generation_failed", j.fail_code, TRUE))
                 ELSE IF j.status = 20
                 THEN PollWait([task EXCEPT !.progress = ProgressText(now - task.startTime)],
                               j, 2000 * Min(j.retryCount + 1, 5))
                 ELSE NextIteration(task, j, now)
       ELSE PollCatch(task, [job EXCEPT !.pollErr = rq_result.err], rq_result.err)
    /\ UNCHANGED <<now, poolVars, tasks, purges, reply, firstSeen, pureVars>>

\* The timer the loop body awaited has fired.
gen_pollWaited ==
    /\ job.pc = "poll_wait"
    /\ now' = now + job.wait
    /\ NextIteration(task, [job EXCEPT !.wait = 0], now')
    /\ UNCHANGED <<poolVars, tasks, purges, reply, firstSeen, pureVars>>

\* platformRequest for the HD URL has settled.
gen_hq ==
    /\ job.pc = "hq"
    /\ rq_pc \in {"returned", "thrown"}
    /\ rq_reset
    /\ IF rq_pc = "returned" /\ rq_result.data.url
       THEN Fulfilled(task, [job EXCEPT !.hq = "url"], "hq")
       ELSE PreviewUrl(task, [job EXCEPT !.hq = IF rq_pc = "returned" THEN "no_url"
                                                ELSE "thrown"])
    /\ UNCHANGED <<now, poolVars, tasks, purges, reply, firstSeen, pureVars>>

\* setTimeout(() => tasks.delete(task.id), 300000) at time t, with the
\* deadlines `armed` so far.
ArmPurge_restart(armed, t) == {t + 300000}

ArmPurge(armed, t) == armed \cup {t + 300000}

\* GET /api/task/:taskId.
api_task ==
    /\ job.pc # "rejecting"
    /\ IF JobId \notin tasks
       THEN /\ reply' = [code |-> 404, status |-> "not_found", body |-> ""]
            /\ UNCHANGED <<task, purges, firstSeen, pureVars>>
       ELSE /\ task' = PolledTask(task)
            /\ IF task.status = "done"
               THEN /\ reply' = [code |-> 200, status |-> "done", body |-> task.result]
                    /\ purges' = ArmPurge(purges, now)
                    /\ firstSeen' = IF firstSeen < 0 THEN now ELSE firstSeen
               ELSE IF task.status = "error"
               THEN /\ reply' = [code |-> 200, status |-> "error", body |-> task.error.kind]
                    /\ purges' = ArmPurge(purges, now)
                    /\ firstSeen' = IF firstSeen < 0 THEN now ELSE firstSeen
               ELSE /\ reply' = [code |-> 200, status |-> "processing", body |-> task.progress]
                    /\ UNCHANGED <<purges, firstSeen, pureVars>>
    /\ UNCHANGED <<now, reqVars, poolVars, tasks, job, pureVars>>

\* A timer armed by a poll is due and fires: tasks.delete(task.id).
purge_fire(d) ==
    /\ d \in purges
    /\ d <= now
    /\ purges' = purges \ {d}
    /\ tasks' = tasks \ {JobId}
    /\ UNCHANGED <<now, reqVars, poolVars, task, job, reply, firstSeen, pureVars>>

\* The age beyond which the periodic sweep deletes a task, 30 * 60 * 1000,
\* in proportion to the default limit of a generation, 45 * 60 * 1000: the
\* limit of the model stands for the default one.
TASK_MAX_AGE_MS == (VIDEO_GENERATION_TIMEOUT_MS * 30) \div 45

\* The callback of setInterval(..., 60000) finds the task too old.
sweep_fire ==
    /\ JobId \in tasks
    /\ now - task.startTime > TASK_MAX_AGE_MS
    /\ tasks' = tasks \ {JobId}
    /\ UNCHANGED <<now, reqVars, poolVars, task, job, purges, reply, firstSeen, pureVars>>

\* How far the clock is moved at once while nothing runs, and up to when.
QuietStepMs == 150000
HorizonMs == 450000

\* Time passes while no flow is running, up to the next timer that is due.
elapse ==
    /\ job.pc = "settled"
    /\ now + QuietStepMs <= HorizonMs
    /\ \A d \in purges : now + QuietStepMs <= d
    /\ now' = now + QuietStepMs
    /\ UNCHANGED <<reqVars, poolVars, jobVars, pureVars>>

(***************************************************************************)
(* Credential normalization (parseCookieString, normalizeSessionInput).    *)
(* A text is a sequence of pieces: a piece is one of the characters the    *)
(* code tells apart, or a run of [a-zA-Z0-9_] written as one piece.        *)
(***************************************************************************)
\* What String.prototype.trim removes.
Whitespace == {" ", "\n"}

\* The pieces that are not runs of [a-zA-Z0-9_].
Punctuation == Whitespace \cup {"=", ":", ";"}

RECURSIVE TrimStart(_)
TrimStart(s) ==
    IF s # <<>> /\ Head(s) \in Whitespace THEN TrimStart(Tail(s)) ELSE s

RECURSIVE TrimEnd(_)
TrimEnd(s) ==
    IF s # <<>> /\ s[Len(s)] \in Whitespace
    THEN TrimEnd(SubSeq(s, 1, Len(s) - 1))
    ELSE s

\* String.prototype.trim
Trim(s) == TrimEnd(TrimStart(s))

\* String.prototype.includes for one piece.
Includes(s, c) == \E i \in 1 .. Len(s) : s[i] = c

\* String.prototype.indexOf for one piece: zero-based, -1 when absent.
IndexOf(s, c) ==
    IF Includes(s, c)
    THEN (CHOOSE i \in 1 .. Len(s) : s[i] = c /\ \A j \in 1 .. i - 1 : s[j] # c) - 1
    ELSE -1

\* String.prototype.slice(from) and slice(0, to), zero-based.
SliceFrom(s, from) == SubSeq(s, from + 1, Len(s))
SliceTo(s, to) == SubSeq(s, 1, to)

\* rawCookie.split(/[\n;]+/): `cur` is the fragment being read, `afterSep`
\* says that the piece before was a separator.
RECURSIVE SplitFragments(_, _, _)
SplitFragments(s, cur, afterSep) ==
    IF s = <<>> THEN <<cur>>
    ELSE IF Head(s) \in {"\n", ";"}
    THEN IF afterSep THEN SplitFragments(Tail(s), cur, TRUE)
         ELSE <<cur>> \o SplitFragments(Tail(s), <<>>, TRUE)
    ELSE SplitFragments(Tail(s), Append(cur, Head(s)), FALSE)

\* The body of the loop of parseCookieString for one fragment: the pair it
\* sets, or none.
FragmentPair(rawFragment) ==
    LET fragment == Trim(rawFragment)
        eq == IndexOf(fragment, "=")
        separatorIndex == IF eq <= 0 THEN IndexOf(fragment, ":") ELSE eq
        key == Trim(SliceTo(fragment, separatorIndex))
        value == Trim(SliceFrom(fragment, separatorIndex + 1)) IN
    IF fragment = <<>> \/ separatorIndex <= 0 \/ key = <<>> \/ value = <<>>
    THEN <<>>
    ELSE <<[key |-> key, value |-> value]>>

RECURSIVE FragmentPairs(_)
FragmentPairs(fragments) ==
    IF fragments = <<>> THEN <<>>
    ELSE FragmentPair(Head(fragments)) \o FragmentPairs(Tail(fragments))

\* parseCookieString: the Map as a function from the keys set to the value
\* set last.
parseCookieString(rawCookie) ==
    LET pairs == FragmentPairs(SplitFragments(rawCookie, <<>>, FALSE))
        last(k) == CHOOSE i \in 1 .. Len(pairs) :
                      /\ pairs[i].key = k
                      /\ \A j \in i + 1 .. Len(pairs) : pairs[j].key # k IN
    [k \in {pairs[i].key : i \in 1 .. Len(pairs)} |-> pairs[last(k)].value]

\* The cookie names that may hold the session token, in order of preference.
SESSION_TOKEN_COOKIE_KEYS_jimengFirst(platformKey) ==
    << <<"sessionid">>, <<"sessionid_ss">>, <<"sid_tt">>,
       <<"sessionid_pippitcn_web">>, <<"sessionid_ss_pippitcn_web">>,
       <<"sid_tt_pippitcn_web">> >>

SESSION_TOKEN_COOKIE_KEYS_xyqFirst(platformKey) ==
    << <<"sessionid_pippitcn_web">>, <<"sessionid_ss_pippitcn_web">>,
       <<"sid_tt_pippitcn_web">>, <<"sessionid">>, <<"sessionid_ss">>,
       <<"sid_tt">> >>

SESSION_TOKEN_COOKIE_KEYS(platformKey) ==
    IF platformKey = "xyq"
    THEN << <<"sessionid_pippitcn_web">>, <<"sessionid_ss_pippitcn_web">>,
            <<"sid_tt_pippitcn_web">>, <<"sessionid">>, <<"sessionid_ss">>,
            <<"sid_tt">> >>
    ELSE << <<"sessionid">>, <<"sessionid_ss">>, <<"sid_tt">>,
            <<"sessionid_pippitcn_web">>, <<"sessionid_ss_pippitcn_web">>,
            <<"sid_tt_pippitcn_web">> >>

\* How many pieces at the head of s are runs of [a-zA-Z0-9_].
RECURSIVE NameLength(_)
NameLength(s) ==
    IF s # <<>> /\ Head(s) \notin Punctuation THEN 1 + NameLength(Tail(s)) ELSE 0

RECURSIVE PrefixLength(_)
PrefixLength(s) ==
    IF s # <<>> /\ Head(s) # ":" THEN 1 + PrefixLength(Tail(s)) ELSE 0

\* trimmed.match(/^[a-zA-Z0-9_]+:(.+)$/): the group, or <<>> for no match.
ColonMatch_anyName(trimmed) ==
    LET n == PrefixLength(trimmed)
        rest == SliceFrom(trimmed, n + 1) IN
    IF n >= 1 /\ Len(trimmed) > n + 1 /\ trimmed[n + 1] = ":" /\ ~Includes(rest, "\n")
    THEN rest ELSE <<>>

ColonMatch(trimmed) ==
    LET n == NameLength(trimmed)
        rest == SliceFrom(trimmed, n + 1) IN
    IF n >= 1 /\ Len(trimmed) > n + 1 /\ trimmed[n + 1] = ":" /\ ~Includes(rest, "\n")
    THEN rest ELSE <<>>

\* The first candidate key the Map has, from position i on; 0 for none.
RECURSIVE FirstCandidate(_, _, _)
FirstCandidate(candidateKeys, cookieMap, i) ==
    IF i > Len(candidateKeys) THEN 0
    ELSE IF candidateKeys[i] \in DOMAIN cookieMap THEN i
    ELSE FirstCandidate(candidateKeys, cookieMap, i + 1)

\* normalizeSessionInput(platformKey, rawInput) for a rawInput that is a
\* string (text) or not.
normalizeSessionInput(platformKey, rawInput) ==
    IF ~rawInput.isString THEN <<>>
    ELSE
    LET trimmed == Trim(rawInput.text)
        cookieMap == parseCookieString(trimmed)
        candidateKeys == SESSION_TOKEN_COOKIE_KEYS(platformKey)
        found == FirstCandidate(candidateKeys, cookieMap, 1)
        separatorIndex == IndexOf(trimmed, "=") IN
    IF trimmed = <<>> THEN <<>>
    ELSE IF ColonMatch(trimmed) # <<>> THEN Trim(ColonMatch(trimmed))
    ELSE IF ~Includes(trimmed, "=") THEN trimmed
    ELSE IF found # 0 THEN cookieMap[candidateKeys[found]]
    ELSE IF ~Includes(trimmed, ";") /\ separatorIndex > 0
    THEN Trim(SliceFrom(trimmed, separatorIndex + 1))
    ELSE <<>>

\* The longest text typed piece by piece.
MaxInputLen == 4

\* The pieces a text is typed from.
Pieces == {"sessionid", "sessionid_pippitcn_web", "sid_tt", "x", " ", "=", ":", ";"}

\* The cookies a text is extended by at one of its ends.
Cookies ==
    { <<"sessionid", "=", "y">>, <<"sessionid_pippitcn_web", "=", "y">>,
      <<"sid_tt", "=", "z">>, <<"x", "=", "y">> }

\* The platform keys normalizeSessionInput is called with.
PlatformKeys == PLATFORM_CONFIGS \cup {"other"}

NoInput == [isString |-> TRUE, text |-> <<>>, pasted |-> FALSE]

NotCalled == [called |-> FALSE, value |-> [p \in PlatformKeys |-> <<>>]]

NsInit ==
    /\ ns_in = NoInput
    /\ ns_out = NotCalled

\* One more piece of the credential is typed.
ns_type(c) ==
    /\ ~ns_out.called
    /\ ns_in.isString
    /\ ~ns_in.pasted
    /\ Len(ns_in.text) < MaxInputLen
    /\ ns_in' = [ns_in EXCEPT !.text = Append(@, c)]
    /\ UNCHANGED <<ns_out, notNs>>

\* A cookie is put before or behind what was typed.
ns_paste(cookie, front) ==
    /\ ~ns_out.called
    /\ ns_in.isString
    /\ ~ns_in.pasted
    /\ ns_in' = [ns_in EXCEPT !.pasted = TRUE,
                              !.text = IF front THEN cookie \o <<";">> \o @
                                       ELSE @ \o <<";">> \o cookie]
    /\ UNCHANGED <<ns_out, notNs>>

\* The credential is no string at all (undefined, a number, an object).
ns_noString ==
    /\ ~ns_out.called
    /\ ns_in = NoInput
    /\ ns_in' = [ns_in EXCEPT !.isString = FALSE]
    /\ UNCHANGED <<ns_out, notNs>>

\* normalizeSessionInput is called with the credential, for each platform key.
ns_call ==
    /\ ~ns_out.called
    /\ ns_out' = [called |-> TRUE,
                  value |-> [p \in PlatformKeys |-> normalizeSessionInput(p, ns_in)]]
    /\ UNCHANGED <<ns_in, notNs>>

(***************************************************************************)
(* Request signing (createAWSSignature).  A text is a sequence of pieces   *)
(* as above; a digest is written as the pair of the algorithm and what     *)
(* was digested, so that two digests are equal only for equal inputs.      *)
(***************************************************************************)
\* crypto.createHash('sha256').update(data).digest('hex')
sha256(data) == <<"sha256", data>>

\* crypto.createHmac('sha256', key).update(data).digest()
hmac(key, data) == <<"hmac", key, data>>

\* String.prototype.toUpperCase for the method names in use.
ToUpperCase(method) ==
    IF method \in {"post", "POST"} THEN "POST"
    ELSE IF method \in {"get", "GET"} THEN "GET"
    ELSE method

\* The order of the query keys under the comparison of queryParams.sort.
KeyRank(k) ==
    CASE k = "Action" -> 1
      [] k = "ServiceId" -> 2
      [] k = "SessionKey" -> 3
      [] k = "Version" -> 4
      [] OTHER -> 5

\* queryParams.sort by key, as an insertion sort that keeps equal keys in
\* their order.
RECURSIVE InsertParam(_, _)
InsertParam(sorted, kv) ==
    IF sorted = <<>> THEN <<kv>>
    ELSE IF KeyRank(kv[1]) < KeyRank(Head(sorted)[1])
    THEN <<kv>> \o sorted
    ELSE <<Head(sorted)>> \o InsertParam(Tail(sorted), kv)

RECURSIVE SortParams(_)
SortParams(params) ==
    IF params = <<>> THEN <<>>
    ELSE InsertParam(SortParams(SubSeq(params, 1, Len(params) - 1)),
                     params[Len(params)])

\* payloadHash: of the payload for a POST with a payload, of '' otherwise.
PayloadHash_empty(method, payload) == sha256(<<>>)

PayloadHash(method, payload) ==
    IF ToUpperCase(method) = "POST" /\ payload # <<>>
    THEN sha256(payload)
    ELSE sha256(<<>>)

\* headersToSign, with its keys in the order of signedHeaders.
HeadersToSign(method, timestamp, sessionToken, payload) ==
    (IF ToUpperCase(method) = "POST" /\ payload # <<>>
     THEN << <<"x-amz-content-sha256", PayloadHash(method, payload)>> >>
     ELSE <<>>)
    \o << <<"x-amz-date", timestamp>> >>
    \o (IF sessionToken # <<>>
        THEN << <<"x-amz-security-token", sessionToken>> >>
        ELSE <<>>)

\* The pieces of timestamps and tokens.
SigPieces == {"20260101", "20260102", "T000000Z", "T000001Z", "t", "u"}

\* Only the digest of the payload is no text that trim applies to.
CanonicalValue(v) == IF v \in Seq(Punctuation \cup SigPieces) THEN Trim(v) ELSE v

\* createAWSSignature(method, url, headers, accessKeyId, secretAccessKey,
\* sessionToken, payload) for args with these fields.
createAWSSignature(args) ==
    LET timestamp == args.headers["x-amz-date"]
        date == SubSeq(timestamp, 1, 1)
        region == "cn-north-1"
        service == "imagex"
        canonicalQueryString == SortParams(args.url.searchParams)
        headersToSign ==
            HeadersToSign(args.method, timestamp, args.sessionToken, args.payload)
        payloadHash == PayloadHash(args.method, args.payload)
        signedHeaders == [i \in 1 .. Len(headersToSign) |-> headersToSign[i][1]]
        canonicalHeaders ==
            [i \in 1 .. Len(headersToSign) |->
                <<headersToSign[i][1], CanonicalValue(headersToSign[i][2])>>]
        canonicalRequest ==
            <<ToUpperCase(args.method), args.url.pathname, canonicalQueryString,
              canonicalHeaders, signedHeaders, payloadHash>>
        credentialScope == <<date, region, service, "aws4_request">>
        stringToSign ==
            <<"AWS4-HMAC-SHA256", timestamp, credentialScope, sha256(canonicalRequest)>>
        kDate == hmac(<<"AWS4", args.secretAccessKey>>, date)
        kRegion == hmac(kDate, region)
        kService == hmac(kRegion, service)
        kSigning == hmac(kService, "aws4_request")
        signature == hmac(kSigning, stringToSign) IN
    [Credential |-> <<args.accessKeyId, credentialScope>>,
     SignedHeaders |-> signedHeaders,
     Signature |-> signature]

\* The x-amz-date values: the first piece stands for the eight characters of
\* the date.
Timestamps ==
    { <<"20260101", "T000000Z">>, <<"20260101", "T000001Z">>,
      <<"20260102", "T000000Z">>, <<"20260101", "T000000Z", " ">> }

\* The session tokens of the upload ticket, '' for none.
SessionTokens == { <<>>, <<"t">>, <<"t", " ">>, <<" ", "t">>, <<"u">> }

SignedPayloads == { <<>>, <<"p">>, <<"q">> }

Methods == {"GET", "POST", "post"}

\* The apply and the commit URL.
Urls ==
    { [pathname |-> "/",
       searchParams |-> << <<"Action", "ApplyImageUpload">>,
                           <<"Version", "2018-08-01">>,
                           <<"ServiceId", "tb4s082cfz">> >>],
      [pathname |-> "/",
       searchParams |-> << <<"Action", "CommitImageUpload">>,
                           <<"Version", "2018-08-01">>,
                           <<"SessionKey", "k">>,
                           <<"ServiceId", "tb4s082cfz">> >>] }

SignArgs ==
    [method : Methods, url : Urls,
     headers : [{"x-amz-date"} -> Timestamps],
     accessKeyId : {"AK"}, secretAccessKey : {"SK1", "SK2"},
     sessionToken : SessionTokens, payload : SignedPayloads]

NotSigned == [signed |-> FALSE]

SigInit ==
    /\ sig_a = NotSigned
    /\ sig_b = NotSigned

\* A request is signed.
aws_sign(args) ==
    /\ ~sig_a.signed
    /\ sig_a' = [signed |-> TRUE, args |-> args,
                 authorization |-> createAWSSignature(args)]
    /\ UNCHANGED <<sig_b, notSig>>

\* A request that differs from the first in at most one argument is signed.
aws_signAgain(args) ==
    /\ sig_a.signed
    /\ ~sig_b.signed
    /\ Cardinality({f \in DOMAIN args : args[f] # sig_a.args[f]}) <= 1
    /\ sig_b' = [signed |-> TRUE, args |-> args,
                 authorization |-> createAWSSignature(args)]
    /\ UNCHANGED <<sig_a, notSig>>

(***************************************************************************)
(* The two request paths on the same response body                         *)
(***************************************************************************)
\* The bodies a platform can answer with: those of HttpResponses that are a
\* body at all, and JSON whose ret is not a finite number ("abc").
ClassBodies ==
    { r \in HttpResponses : r.kind # "transport" }
    \cup { [ret_text |-> "abc"] @@ Resp("json", FALSE, FALSE, FALSE, 0, e, d) :
              e \in {"", "other"}, d \in {NoData, GenData} }

NoBody == [platform |-> "none", resp |-> NoResp]

NoClasses == [direct |-> NoOutcome, browser |-> NoOutcome]

ClsInit ==
    /\ cls_in = NoBody
    /\ cls_out = NoClasses

\* The platform answers a request with body `resp`.
cls_respond(platformKey, resp) ==
    /\ cls_in = NoBody
    /\ cls_in' = [platform |-> platformKey, resp |-> resp]
    /\ UNCHANGED <<cls_out, notCls>>

\* platformRequest parses and classifies the body.
cls_direct ==
    /\ cls_in # NoBody
    /\ cls_out.direct = NoOutcome
    /\ cls_out' = [cls_out EXCEPT !.direct = ClassifyResponse(cls_in.platform, cls_in.resp)]
    /\ UNCHANGED <<cls_in, notCls>>

\* BrowserService.fetch parses the body, platformRequestViaBrowser classifies it.
cls_browser ==
    /\ cls_in # NoBody
    /\ cls_out.browser = NoOutcome
    /\ cls_out' = [cls_out EXCEPT !.browser =
            ViaBrowserOutcome(ParsePageResponse(cls_in.platform, cls_in.resp))]
    /\ UNCHANGED <<cls_in, notCls>>

(***************************************************************************)
(* buildMetaListFromPrompt                                                 *)
(***************************************************************************)
\* A prompt is a sequence of pieces: a word, a blank, and the placeholders
\* /@(?:图|image)?(\d+)/ with the number they carry.
Placeholders == {"@0", "@1", "@2", "@9"}

PromptPieces == {"a", " "} \cup Placeholders

MaxPromptLen == 3

\* parseInt(match[1]) - 1
ImageIndex(piece) ==
    CASE piece = "@0" -> -1
      [] piece = "@1" -> 0
      [] piece = "@2" -> 1
      [] piece = "@9" -> 8

TextMeta(text) == [meta_type |-> "text", text |-> text]

ImageMeta(i) == [meta_type |-> "image", text |-> <<>>, material_idx |-> i]

\* `if (text.trim()) metaList.push({ meta_type: 'text', text })`
PushText(metaList, text) ==
    IF Trim(text) # <<>> THEN Append(metaList, TextMeta(text)) ELSE metaList

\* `if (imageIndex >= 0 && imageIndex < imageCount) metaList.push(image)`
PushImage(metaList, imageIndex, imageCount) ==
    IF imageIndex >= 0 /\ imageIndex < imageCount
    THEN Append(metaList, ImageMeta(imageIndex)) ELSE metaList

\* The while loop over the matches and the remaining text behind the last
\* one: `text` is prompt.substring(lastIndex, i).
RECURSIVE ScanPrompt(_, _, _, _, _)
ScanPrompt(prompt, imageCount, i, text, metaList) ==
    IF i > Len(prompt) THEN PushText(metaList, text)
    ELSE IF prompt[i] \in Placeholders
    THEN ScanPrompt(prompt, imageCount, i + 1, <<>>,
                    PushImage(PushText(metaList, text), ImageIndex(prompt[i]), imageCount))
    ELSE ScanPrompt(prompt, imageCount, i + 1, Append(text, prompt[i]), metaList)

\* The list built when no entry was pushed: 使用 <image> 和 <image> ... and
\* the prompt, or 图片生成视频.
RECURSIVE DefaultImages(_, _)
DefaultImages(i, imageCount) ==
    IF i >= imageCount THEN <<>>
    ELSE (IF i = 0 THEN <<TextMeta(<<"use">>)>> ELSE <<>>)
         \o <<ImageMeta(i)>>
         \o (IF i < imageCount - 1 THEN <<TextMeta(<<"and">>)>> ELSE <<>>)
         \o DefaultImages(i + 1, imageCount)

DefaultMetaList(normalizedPrompt, imageCount) ==
    Append(DefaultImages(0, imageCount),
           IF normalizedPrompt # <<>>
           THEN TextMeta(<<"images,">> \o normalizedPrompt)
           ELSE TextMeta(<<"images to video">>))

buildMetaListFromPrompt(prompt, imageCount) ==
    LET normalizedPrompt == Trim(prompt)
        metaList == ScanPrompt(prompt, imageCount, 1, <<>>, <<>>) IN
    IF imageCount <= 0
    THEN <<TextMeta(IF normalizedPrompt # <<>> THEN normalizedPrompt
                    ELSE <<"make a video">>)>>
    ELSE IF metaList = <<>>
    THEN DefaultMetaList(normalizedPrompt, imageCount)
    ELSE metaList

NotBuilt == [built |-> FALSE, list |-> <<>>]

MlInit ==
    /\ ml_in = [prompt |-> <<>>, imageCount |-> 0]
    /\ ml_out = NotBuilt

\* The user types one more piece of the prompt.
ml_type(c) ==
    /\ ~ml_out.built
    /\ Len(ml_in.prompt) < MaxPromptLen
    /\ ml_in' = [ml_in EXCEPT !.prompt = Append(@, c)]
    /\ UNCHANGED <<ml_out, notMl>>

\* One more reference image has been uploaded.
ml_upload ==
    /\ ~ml_out.built
    /\ ml_in.imageCount < MaxFiles
    /\ ml_in' = [ml_in EXCEPT !.imageCount = @ + 1]
    /\ UNCHANGED <<ml_out, notMl>>

\* buildMetaListFromPrompt(prompt || '', uploadedImages.length)
ml_call ==
    /\ ~ml_out.built
    /\ ml_out' = [built |-> TRUE,
                   list |-> buildMetaListFromPrompt(ml_in.prompt, ml_in.imageCount)]
    /\ UNCHANGED <<ml_in, notMl>>

(***************************************************************************)
(* The page: handleGenerate, resumePendingTask, submitVideoTask and        *)
(* pollVideoTask.  A message is a sequence of pieces, each a stretch of    *)
(* its text.                                                               *)
(***************************************************************************)
\* VITE_TASK_POLL_TIMEOUT_MS as configured.
POLL_TIMEOUT_MS == 6000

\* How often the mount effect runs after a load, and how often the page is
\* loaded again.
MaxEffectRuns == 2
MaxReloads == 2

\* The calls of handleGenerate and resumePendingTask that can be under way.
ClientFlows == {1, 2}

\* Pieces of Chinese text are written in pinyin between brackets: [fei] is
\* 非, [wangluo] is 网络, [shipin shengcheng chaoshi] is 视频生成超时.
\* message.toLowerCase(), piece by piece.
ToLowerCase(piece) ==
    CASE piece = "Failed to fetch" -> "failed to fetch"
      [] piece = "[fei]JSON" -> "[fei]json"
      [] OTHER -> piece

isRecoverableNetworkError(message) ==
    \E i \in 1..Len(message) :
        ToLowerCase(message[i]) \in
            {"failed to fetch", "network", "[wangluo]", "[fei]json", "[shipin shengcheng chaoshi]"}

\* The message of the TypeError a failed fetch() rejects with, by browser.
FetchFailures == {"Failed to fetch", "Load failed"}

\* task.error as the server can report it: a business error, the non-JSON
\* error of platformRequest, the server's own generation timeout.
ServerErrors ==
    { <<"API[cuowu]">>, <<"[xiangying]", "[fei]JSON">>, <<"[shipin shengcheng chaoshi]", "[qing shaohou chongshi]">> }

Answer(kind, text) == [kind |-> kind, text |-> text]

\* What POST /generate-video can come back with.
ClientSubmitAnswers ==
    { Answer("network", <<t>>) : t \in FetchFailures }
    \cup { Answer("non_json", <<>>), Answer("http_error", <<"[qing tigong] sessionId">>),
           Answer("http_error", <<>>), Answer("no_task_id", <<>>),
           Answer("task_id", <<>>) }

\* What GET /task/:taskId can come back with.
ClientPollAnswers ==
    { Answer("network", <<t>>) : t \in FetchFailures }
    \cup { Answer("non_json", <<>>), Answer("not_found", <<"[renwu bu cunzai]">>),
           Answer("processing", <<>>), Answer("done", <<>>),
           Answer("done_no_url", <<>>), Answer("error", <<>>) }
    \cup { Answer("error", e) : e \in ServerErrors }

\* The message of the Error submitVideoTask throws.
SubmitMessage(ans) ==
    CASE ans.kind = "network" -> ans.text
      [] ans.kind = "non_json" -> <<"[tijiao renwu shibai: fuwu fanhui]", "[fei]JSON">>
      [] ans.kind = "http_error" ->
            IF ans.text # <<>> THEN ans.text ELSE <<"[tijiao shibai]">>
      [] ans.kind = "no_task_id" -> <<"[fuwuqi wei fanhui renwu ID]">>

\* The message of the Error pollVideoTask throws on an answer.
PollMessage(ans) ==
    CASE ans.kind = "network" -> <<"[lunxun renwu shibai]:">> \o ans.text
      [] ans.kind = "non_json" -> <<"[lunxun renwu shibai: fuwu fanhui]", "[fei]JSON">>
      [] ans.kind = "not_found" -> ans.text
      [] ans.kind = "done_no_url" -> <<"[wei huoqu dao shipin jieguo]">>
      [] ans.kind = "error" ->
            IF ans.text # <<>> THEN ans.text ELSE <<"[shipin shengcheng shibai]">>

\* ... and when its loop ends.
PollTimeoutMessage == <<"[shipin shengcheng chaoshi]", "[qing shaohou chongshi]">>

\* What made a flow end, as kept in flows[f].cause.
PollCause(ans) ==
    CASE ans.kind = "network" -> "poll_network"
      [] ans.kind = "non_json" -> "poll_non_json"
      [] ans.kind = "error" -> "server_error"
      [] OTHER -> ans.kind

IdleFlow ==
    [pc |-> "idle", kind |-> "none", taskId |-> "", elapsed |-> 0,
     ended |-> "none", cause |-> "none"]

ClientInit ==
    /\ client = [lock |-> FALSE, status |-> "idle", pending |-> "",
                 effects |-> 0, reloads |-> 0]
    /\ flows = [f \in ClientFlows |-> IdleFlow]

\* `submitLockRef.current`
Locked_never(c) == FALSE

Locked(c) == c.lock

\* The catch and finally blocks of handleGenerate and resumePendingTask.
FlowCatch(c, f, fl, message, cause) ==
    /\ client' = [c EXCEPT !.lock = FALSE, !.status = "error",
                           !.pending = IF isRecoverableNetworkError(message)
                                       THEN @ ELSE ""]
    /\ flows' = [flows EXCEPT ![f] =
            [fl EXCEPT !.pc = "idle", !.cause = cause,
                       !.ended = IF isRecoverableNetworkError(message)
                                 THEN "recoverable" ELSE "terminal"]]

\* handleGenerationSuccess, clearPendingTask and the finally block.
FlowSuccess(c, f, fl) ==
    /\ client' = [c EXCEPT !.lock = FALSE, !.status = "success", !.pending = ""]
    /\ flows' = [flows EXCEPT ![f] =
            [fl EXCEPT !.pc = "idle", !.cause = "done", !.ended = "success"]]

\* The head of the loop of pollVideoTask.
PollLoop(c, f, fl) ==
    IF fl.elapsed < POLL_TIMEOUT_MS
    THEN /\ client' = c
         /\ flows' = [flows EXCEPT ![f] = [fl EXCEPT !.pc = "poll_wait"]]
    ELSE FlowCatch(c, f, fl, PollTimeoutMessage, "poll_timeout")

\* The user asks for a generation: handleGenerate up to submitVideoTask.
cl_generate(f) ==
    /\ flows[f].pc = "idle"
    /\ IF client.status = "generating" \/ Locked(client)
       THEN UNCHANGED <<client, flows>>
       ELSE /\ client' = [client EXCEPT !.lock = TRUE, !.status = "generating"]
            /\ flows' = [flows EXCEPT ![f] =
                    [IdleFlow EXCEPT !.pc = "submitting", !.kind = "generate"]]
    /\ UNCHANGED notClient

\* The effect that loads the stored snapshot runs: resumePendingTask up to
\* the first wait of pollVideoTask.
cl_effect(f) ==
    /\ flows[f].pc = "idle"
    /\ client.effects < MaxEffectRuns
    /\ LET c == [client EXCEPT !.effects = @ + 1] IN
         IF client.pending = "" \/ Locked(client)
         THEN client' = c /\ UNCHANGED flows
         ELSE PollLoop([c EXCEPT !.lock = TRUE, !.status = "generating"], f,
                       [IdleFlow EXCEPT !.kind = "resume", !.taskId = client.pending])
    /\ UNCHANGED notClient

\* The page is loaded again: the flows under way are gone, localStorage stays.
cl_reload ==
    /\ client.reloads < MaxReloads
    /\ client' = [client EXCEPT !.lock = FALSE, !.status = "idle", !.effects = 0,
                                !.reloads = @ + 1]
    /\ flows' = [f \in ClientFlows |-> IdleFlow]
    /\ UNCHANGED notClient

\* submitVideoTask settles: savePendingTask and the start of pollVideoTask,
\* or the catch block.
cl_submitted(f, ans) ==
    /\ flows[f].pc = "submitting"
    /\ IF ans.kind = "task_id"
       THEN PollLoop([client EXCEPT !.pending = "task_1"], f,
                     [flows[f] EXCEPT !.taskId = "task_1"])
       ELSE FlowCatch(client, f, flows[f], SubmitMessage(ans), "submit_" \o ans.kind)
    /\ UNCHANGED notClient

\* The 3 s between two polls are over.
cl_pollWaited(f) ==
    /\ flows[f].pc = "poll_wait"
    /\ flows' = [flows EXCEPT ![f] = [@ EXCEPT !.pc = "poll_fetch", !.elapsed = @ + 3000]]
    /\ UNCHANGED <<client, notClient>>

\* The poll is answered.
cl_polled(f, ans) ==
    /\ flows[f].pc = "poll_fetch"
    /\ CASE ans.kind = "processing" -> PollLoop(client, f, flows[f])
         [] ans.kind = "done" -> FlowSuccess(client, f, flows[f])
         [] OTHER -> FlowCatch(client, f, flows[f], PollMessage(ans), PollCause(ans))
    /\ UNCHANGED notClient

(***************************************************************************)
(* SpecReq: one call of platformRequest against an arbitrary server.       *)
(***************************************************************************)
InitReq ==
    /\ now = 0
    /\ ReqInit
    /\ PoolInit
    /\ JobInit
    /\ NsInit
    /\ SigInit
    /\ ClsInit
    /\ MlInit
    /\ ClientInit

NextReq ==
    \/ \E k \in PLATFORM_CONFIGS : platformRequest_call(k)
    \/ platformRequest_backoff
    \/ \E resp \in HttpResponses : platformRequest_attempt(resp)

SpecReq == InitReq /\ [][NextReq]_vars

(***************************************************************************)
(* SpecLock: concurrent fetch and refreshSession calls of all callers, in  *)
(* a browser that stays up and with no idle timer firing.                  *)
(* SpecPool: the calls of one caller, with idle timers firing and browser  *)
(* processes dying at any moment.                                          *)
(***************************************************************************)
InitPool ==
    /\ now = 0
    /\ ReqInit
    /\ PoolInit
    /\ JobInit
    /\ NsInit
    /\ SigInit
    /\ ClsInit
    /\ MlInit
    /\ ClientInit

NextLock ==
    \/ \E p \in Procs, o \in {"fetch", "refresh"}, k \in LockKeys : bs_call(p, o, k)
    \/ \E p \in Procs : bs_start(p)
    \/ \E p \in Procs : bs_closed(p)
    \/ \E p \in Procs : bs_getSession(p)
    \/ \E p \in Procs : bs_ensureBrowser(p)
    \/ \E p \in Procs : bs_launched(p)
    \/ \E p \in Procs : bs_newContext(p)
    \/ \E p \in Procs, how \in {"ok", "error"} : bs_navigated(p, how)
    \/ \E p \in Procs, r \in PageResponses : bs_evaluated(p, r)
    \/ \E p \in Procs, why \in EvaluateFailures : bs_evaluateFailed(p, why)
    \/ \E p \in Procs : bs_return(p)

NextPool ==
    \/ \E p \in Solo, o \in {"fetch", "refresh"}, k \in Keys : bs_call(p, o, k)
    \/ \E p \in Solo : bs_start(p)
    \/ \E p \in Solo : bs_closed(p)
    \/ \E p \in Solo : bs_getSession(p)
    \/ \E p \in Solo : bs_ensureBrowser(p)
    \/ \E p \in Solo : bs_launched(p)
    \/ \E p \in Solo : bs_newContext(p)
    \/ \E p \in Solo, how \in NavigationOutcomes : bs_navigated(p, how)
    \/ \E p \in Solo : bs_recreated(p)
    \/ \E p \in Solo, r \in PageResponses : bs_evaluated(p, r)
    \/ \E p \in Solo, why \in EvaluateFailures : bs_evaluateFailed(p, why)
    \/ \E p \in Solo : bs_return(p)
    \/ \E c \in timers : idleTimer_fire(c)
    \/ \E cl \in closing : idleTimer_closed(cl)
    \/ \E b \in connected : browser_disconnected(b)

SpecLock == InitPool /\ [][NextLock]_vars

SpecPool == InitPool /\ [][NextPool]_vars

(***************************************************************************)
(* SpecBrowser: two callers that fetch on keys of their choice, in a       *)
(* browser that can die.                                                   *)
(***************************************************************************)
\* The callers of SpecBrowser.
Pair == {1, 2}

\* The answer the in-page fetch of SpecBrowser gets.
PageOk == Resp("json", FALSE, FALSE, TRUE, 0, "", GenData)

NextBrowser ==
    \/ \E p \in Pair, k \in Keys : bs_call(p, "fetch", k)
    \/ \E p \in Pair : bs_start(p)
    \/ \E p \in Pair : bs_getSession(p)
    \/ \E p \in Pair : bs_ensureBrowser(p)
    \/ \E p \in Pair : bs_launched(p)
    \/ \E p \in Pair : bs_newContext(p)
    \/ \E p \in Pair, how \in NavigationOutcomes : bs_navigated(p, how)
    \/ \E p \in Pair : bs_recreated(p)
    \/ \E p \in Pair : bs_evaluated(p, PageOk)
    \/ \E p \in Pair : bs_evaluateFailed(p, "target_closed")
    \/ \E p \in Pair : bs_return(p)
    \/ \E b \in connected : browser_disconnected(b)

SpecBrowser == InitPool /\ [][NextBrowser]_vars

(***************************************************************************)
(* SpecClassify: one client that makes pool fetches on the keys of both    *)
(* platforms and one direct platformRequest, in a browser that stays up.   *)
(***************************************************************************)
\* Pool fetches the client of SpecClassify makes.
ClientFetches == 2

client_fetch(k) ==
    /\ rq_pc = "idle"
    /\ nruns < ClientFetches
    /\ bs_call(1, "fetch", k)

client_platformRequest(platformKey) ==
    /\ procs[1].pc \in {"idle", "returned"}
    /\ platformRequest_call(platformKey)

NextClassify ==
    \/ \E k \in Keys : client_fetch(k)
    \/ \E k \in PLATFORM_CONFIGS : client_platformRequest(k)
    \/ platformRequest_backoff
    \/ \E resp \in HttpResponses : platformRequest_attempt(resp)
    \/ \E p \in Solo : bs_start(p)
    \/ \E p \in Solo : bs_getSession(p)
    \/ \E p \in Solo : bs_ensureBrowser(p)
    \/ \E p \in Solo : bs_launched(p)
    \/ \E p \in Solo : bs_newContext(p)
    \/ \E p \in Solo, how \in {"ok", "error"} : bs_navigated(p, how)
    \/ \E p \in Solo, r \in PageResponses : bs_evaluated(p, r)
    \/ \E p \in Solo, why \in {"failed_to_fetch", "context_destroyed"} :
          bs_evaluateFailed(p, why)
    \/ \E p \in Solo : bs_return(p)

SpecClassify == InitPool /\ [][NextClassify]_vars

(***************************************************************************)
(* SpecJob: one submission of the direct-model flow, polled by its client, *)
(* against an arbitrary vendor, in a browser that stays up.                *)
(***************************************************************************)
NextJob ==
    \/ \E req \in Submissions : api_generate_video(req)
    \/ \E p \in Solo : bs_start(p)
    \/ \E p \in Solo : bs_closed(p)
    \/ \E p \in Solo : bs_getSession(p)
    \/ \E p \in Solo : bs_ensureBrowser(p)
    \/ \E p \in Solo : bs_launched(p)
    \/ \E p \in Solo : bs_newContext(p)
    \/ \E p \in Solo, how \in {"ok", "error"} : bs_navigated(p, how)
    \/ \E p \in Solo, r \in PageResponses : bs_evaluated(p, r)
    \/ \E p \in Solo, why \in {"failed_to_fetch", "context_destroyed"} :
          bs_evaluateFailed(p, why)
    \/ gen_submitted
    \/ gen_refreshed
    \/ gen_refreshWaited
    \/ gen_warmedUp
    \/ platformRequest_backoff
    \/ \E resp \in JobResponses : platformRequest_attempt(resp)
    \/ gen_polled
    \/ gen_pollWaited
    \/ gen_hq
    \/ api_task
    \/ \E d \in purges : purge_fire(d)
    \/ elapse

SpecJob == InitPool /\ [][NextJob]_vars

(***************************************************************************)
(* SpecFlows: one submission to either platform, run to its end against an *)
(* arbitrary vendor, with no client polling.                               *)
(***************************************************************************)
NextFlows ==
    \/ \E req \in FlowSubmissions : api_generate_video(req)
    \/ \E p \in Solo : bs_start(p)
    \/ \E p \in Solo : bs_closed(p)
    \/ \E p \in Solo : bs_getSession(p)
    \/ \E p \in Solo : bs_ensureBrowser(p)
    \/ \E p \in Solo : bs_launched(p)
    \/ \E p \in Solo : bs_newContext(p)
    \/ \E p \in Solo, how \in {"ok", "error"} : bs_navigated(p, how)
    \/ \E p \in Solo, r \in PageResponses : bs_evaluated(p, r)
    \/ \E p \in Solo, why \in {"failed_to_fetch", "context_destroyed"} :
          bs_evaluateFailed(p, why)
    \/ gen_submitted
    \/ gen_refreshed
    \/ gen_refreshWaited
    \/ gen_warmedUp
    \/ platformRequest_backoff
    \/ \E resp \in JobResponses : platformRequest_attempt(resp)
    \/ gen_polled
    \/ gen_pollWaited
    \/ gen_hq
    \/ \E r \in AgentResponses : xyq_evaluated(r)
    \/ xyq_fetched
    \/ xyq_refreshed
    \/ xyq_threadWaited
    \/ gen_rejected

SpecFlows == InitPool /\ [][NextFlows]_vars

\* The steps of a job that was submitted: the answer or the failure of the
\* call it is waiting for, or the end of the wait it is in.
FlowsProgress ==
    \/ \E p \in Solo : bs_start(p)
    \/ \E p \in Solo : bs_closed(p)
    \/ \E p \in Solo : bs_getSession(p)
    \/ \E p \in Solo : bs_ensureBrowser(p)
    \/ \E p \in Solo : bs_launched(p)
    \/ \E p \in Solo : bs_newContext(p)
    \/ \E p \in Solo, how \in {"ok", "error"} : bs_navigated(p, how)
    \/ \E p \in Solo, r \in PageResponses : bs_evaluated(p, r)
    \/ \E p \in Solo, why \in {"failed_to_fetch", "context_destroyed"} :
          bs_evaluateFailed(p, why)
    \/ gen_submitted
    \/ gen_refreshed
    \/ gen_refreshWaited
    \/ gen_warmedUp
    \/ platformRequest_backoff
    \/ \E resp \in JobResponses : platformRequest_attempt(resp)
    \/ gen_polled
    \/ gen_pollWaited
    \/ gen_hq
    \/ \E r \in AgentResponses : xyq_evaluated(r)
    \/ xyq_fetched
    \/ xyq_refreshed
    \/ xyq_threadWaited
    \/ gen_rejected

\* The submissions the handler accepts: a job is started for them.
LiveSubmissions ==
    {r \in FlowSubmissions :
        r.platform \in PLATFORM_CONFIGS /\ r.session /\ (r.platform = "jimeng" => r.prompt)}

NextLive ==
    \/ \E req \in LiveSubmissions : api_generate_video(req)
    \/ \E p \in Solo : bs_start(p)
    \/ \E p \in Solo : bs_closed(p)
    \/ \E p \in Solo : bs_getSession(p)
    \/ \E p \in Solo : bs_ensureBrowser(p)
    \/ \E p \in Solo : bs_launched(p)
    \/ \E p \in Solo : bs_newContext(p)
    \/ \E p \in Solo, how \in {"ok", "error"} : bs_navigated(p, how)
    \/ \E p \in Solo, r \in PageResponses : bs_evaluated(p, r)
    \/ \E p \in Solo, why \in {"failed_to_fetch", "context_destroyed"} :
          bs_evaluateFailed(p, why)
    \/ gen_submitted
    \/ gen_refreshed
    \/ gen_refreshWaited
    \/ gen_warmedUp
    \/ platformRequest_backoff
    \/ \E resp \in JobResponses : platformRequest_attempt(resp)
    \/ gen_polled
    \/ gen_pollWaited
    \/ gen_hq
    \/ \E r \in AgentResponses : xyq_evaluated(r)
    \/ xyq_fetched
    \/ xyq_refreshed
    \/ xyq_threadWaited
    \/ gen_rejected

\* SpecLive: an accepted submission in either flow, where every call that
\* was made comes back and every wait ends.
SpecLive == InitPool /\ [][NextLive]_vars /\ WF_vars(FlowsProgress)

(***************************************************************************)
(* SpecUpload: one accepted submission to the direct-model platform with   *)
(* up to MaxFiles reference images, up to the generation submit.           *)
(***************************************************************************)
NextUpload ==
    \/ \E req \in ImageSubmissions : api_generate_video(req)
    \/ platformRequest_backoff
    \/ \E resp \in TicketResponses : platformRequest_attempt(resp)
    \/ up_ticketed
    \/ \E a \in FetchAnswers : up_answered(a)

SpecUpload == InitPool /\ [][NextUpload]_vars

(***************************************************************************)
(* SpecNormalize: a credential is put together and normalizeSessionInput   *)
(* is called with it.                                                      *)
(***************************************************************************)
NextNormalize ==
    \/ \E c \in Pieces : ns_type(c)
    \/ \E cookie \in Cookies, front \in BOOLEAN : ns_paste(cookie, front)
    \/ ns_noString
    \/ ns_call

SpecNormalize == InitPool /\ [][NextNormalize]_vars

(***************************************************************************)
(* SpecSign: a request is signed, and then one that differs from it in at  *)
(* most one argument.                                                      *)
(***************************************************************************)
NextSign ==
    \/ \E args \in SignArgs : aws_sign(args)
    \/ \E args \in SignArgs : aws_signAgain(args)

SpecSign == InitPool /\ [][NextSign]_vars

(***************************************************************************)
(* SpecSweep: an accepted submission, the polls of its client and the      *)
(* periodic sweep of the registry.                                         *)
(***************************************************************************)
NextSweep ==
    \/ \E req \in LiveSubmissions : api_generate_video(req)
    \/ FlowsProgress
    \/ api_task
    \/ sweep_fire

SpecSweep == InitPool /\ [][NextSweep]_vars

(***************************************************************************)
(* SpecClient: the page against an arbitrary server                        *)
(***************************************************************************)
NextClient ==
    \/ \E f \in ClientFlows : cl_generate(f)
    \/ \E f \in ClientFlows : cl_effect(f)
    \/ cl_reload
    \/ \E f \in ClientFlows, ans \in ClientSubmitAnswers : cl_submitted(f, ans)
    \/ \E f \in ClientFlows : cl_pollWaited(f)
    \/ \E f \in ClientFlows, ans \in ClientPollAnswers : cl_polled(f, ans)

SpecClient == InitPool /\ [][NextClient]_vars

(***************************************************************************)
(* Specification of the two request paths given the same body              *)
(***************************************************************************)
NextEquiv ==
    \/ \E platformKey \in PLATFORM_CONFIGS, resp \in ClassBodies :
            cls_respond(platformKey, resp)
    \/ cls_direct
    \/ cls_browser

SpecEquiv == InitPool /\ [][NextEquiv]_vars

(***************************************************************************)
(* Specification of buildMetaListFromPrompt on the prompts a user can type *)
(***************************************************************************)
NextMeta ==
    \/ \E c \in PromptPieces : ml_type(c)
    \/ ml_upload
    \/ ml_call

SpecMeta == InitPool /\ [][NextMeta]_vars

(***************************************************************************)
(* Properties of platformRequest                                           *)
(***************************************************************************)
rq_done == rq_pc \in {"returned", "thrown"}

\* C1: platformRequest makes at most 4 HTTP attempts; a transport failure on
\* attempt k (1..3) is followed by a wait of k seconds and one more attempt;
\* the payload of the first successful attempt is returned; a transport
\* failure on the 4th attempt propagates.
C1_TransportRetryBudget ==
    /\ Len(rq_seen) <= 4
    /\ \A i \in 1..Len(rq_waits) : rq_waits[i] = 1000 * i
    /\ Len(rq_waits) = IF rq_pc = "http" THEN Len(rq_seen)
                       ELSE IF rq_pc = "idle" THEN 0 ELSE Len(rq_seen) - 1
    /\ \A i \in 1..Len(rq_seen) :
          /\ rq_seen[i].tag = "transport" /\ i <= 3 =>
                ~rq_done \/ Len(rq_seen) > i
          /\ rq_seen[i].tag = "transport" /\ i = 4 =>
                rq_pc = "thrown" /\ rq_result.err.kind = "transport"
          /\ rq_seen[i].tag = "ok" =>
                /\ i = Len(rq_seen)
                /\ rq_pc = "returned"
                /\ rq_result.data = rq_seen[i].data
    /\ rq_pc = "returned" => rq_seen[Len(rq_seen)].tag = "ok"

\* Three transport failures, then a success that is returned.
C1_Witness ==
    /\ rq_pc = "returned"
    /\ Len(rq_seen) = 4
    /\ \A i \in 1..3 : rq_seen[i].tag = "transport"
    /\ rq_waits = <<1000, 2000, 3000>>
    /\ rq_result.data = Hist("present", 50, 0, TRUE, TRUE)

\* C2: a JSON response with a non-zero ret makes platformRequest throw at
\* once: no business error is ever followed by another attempt.
C2_BusinessErrorsNeverRetried ==
    \A i \in 1..Len(rq_seen) :
        rq_seen[i].tag = "business" =>
            /\ i = Len(rq_seen)
            /\ rq_pc = "thrown"

\* C3: a non-JSON body that looks like HTML makes platformRequest and
\* browserService.fetch fail without any retry, with an error naming
\* sessionid_pippitcn_web for xyq and sessionid for jimeng.
CookieFieldOf(platformKey) ==
    IF platformKey = "xyq" THEN "sessionid_pippitcn_web"
    ELSE IF platformKey = "jimeng" THEN "sessionid" ELSE "?"

C3_HtmlIsTerminalAndNamesCookie ==
    /\ \A i \in 1..Len(rq_seen) :
          rq_seen[i].tag = "html" =>
              /\ i = Len(rq_seen)
              /\ rq_pc = "thrown"
              /\ rq_result.err.kind = "auth_html"
              /\ rq_result.err.cookie = CookieFieldOf(rq_platform)
    /\ \A p \in Procs : \A i \in 1..Len(procs[p].evlog) :
          procs[p].evlog[i] = "html" =>
              /\ i = Len(procs[p].evlog)
              /\ procs[p].pc = "returned"
              /\ procs[p].result.tag = "throw"
              /\ procs[p].result.err.kind = "auth_html"
              /\ procs[p].result.err.cookie = CookieFieldOf(KeyPlatform(procs[p].key))

\* An xyq fetch and a jimeng platformRequest have both met an HTML page.
C3_Witness ==
    /\ rq_pc = "thrown"
    /\ rq_platform = "jimeng"
    /\ rq_seen = <<[tag |-> "html", ret |-> 0, data |-> NoData]>>
    /\ procs[1].pc = "returned"
    /\ KeyPlatform(procs[1].key) = "xyq"
    /\ procs[1].evlog = <<"html">>
    /\ procs[1].result.err.cookie = "sessionid_pippitcn_web"

(***************************************************************************)
(* Properties of the session pool                                          *)
(***************************************************************************)
\* p is inside the function it handed to runWithSessionLock.
InBody(p) == procs[p].pc \notin {"idle", "queued", "returned"}

\* p's page.evaluate is running in a live page.
Evaluating(p) == procs[p].pc = "evaluating" /\ IsOpen(procs[p].ctx)

\* No two evaluations run at once in the page of one session.
NoConcurrentEvaluations ==
    \A p, q \in Procs :
        p # q /\ Evaluating(p) /\ Evaluating(q) => procs[p].ctx # procs[q].ctx

\* C4: at most one locked operation body is executing for a key at any
\* time; no two in-page evaluations run concurrently on the same key.
C4_OneLockedBodyPerKey ==
    /\ \A p, q \in Procs :
          p # q /\ InBody(p) /\ InBody(q) => procs[p].key # procs[q].key
    /\ NoConcurrentEvaluations

OpenContexts(k) == {c \in DOMAIN contexts : contexts[c].key = k /\ contexts[c].open}

\* C5: for each key at most one browser context created for it is open.
C5_OneOpenContextPerKey ==
    \A k \in Keys : Cardinality(OpenContexts(k)) <= 1

\* C6: within one fetch call the browser is recreated at most once, and the
\* page evaluation is tried at most twice.
C6_OneRecreationPerFetch ==
    \A p \in Procs :
        procs[p].op = "fetch" =>
            /\ procs[p].recreations <= 1
            /\ Len(procs[p].evlog) <= 2

(***************************************************************************)
(* Properties of the direct-model flow and of the task registry            *)
(***************************************************************************)
Elapsed == now - task.startTime

\* C7: a job's status starts as processing and changes at most once, to
\* done or error; once it is done or error no field of the task is written.
C7_TerminalTaskIsFrozen ==
    [][ /\ task.status \in {"done", "error"} => task' = task
        /\ task.status = "processing" =>
              task'.status \in {"processing", "done", "error"}
        /\ task.status = "none" => task'.status \in {"none", "processing"} ]_vars

\* A finished job has been polled and then removed from the registry.
C7_Witness ==
    /\ task.status = "done"
    /\ reply.status = "done"
    /\ JobId \notin tasks

IsAuthOrBusinessError(err) == err.kind \in {"auth_html", "login", "api_error"}

\* C8: an authentication or business error thrown by a status poll ends the
\* job in error with that error; the polling loop does not go on after it.
C8_PollErrorsEndTheJob ==
    IsAuthOrBusinessError(job.pollErr) =>
        /\ task.status = "error"
        /\ task.error = job.pollErr

RefreshingAnswers ==
    {i \in 1..Len(job.answers) : i <= 2 /\ job.answers[i] = 4010}

C10_TimeoutEndsTheJob ==
    /\ task.status = "done" => job.status # 20
    /\ job.pc = "polling" /\ rq_pc = "http" /\ rq_attempt = 0 =>
          Elapsed < VIDEO_GENERATION_TIMEOUT_MS
    /\ job.pc \in {"polling", "poll_wait"} =>
          5000 + 2000 * job.retryCount <= Elapsed
    /\ task.status = "error" /\ task.error.kind = "timeout" =>
          /\ job.status = 20
          /\ Elapsed >= VIDEO_GENERATION_TIMEOUT_MS
    /\ job.pc = "settled" /\ job.status = 20 =>
          /\ task.status = "error"
          /\ task.error.kind = "timeout" \/ task.error.vendorFail

\* The vendor reported status 20 until the limit was reached.
C10_Witness ==
    /\ task.status = "error"
    /\ task.error.kind = "timeout"
    /\ job.retryCount >= 2
    /\ job.pollErr = NoErr

Rejections == {"unsupported_platform", "no_session", "empty_request"}

C12_PurgedAfterFirstTerminalPoll ==
    /\ [](firstSeen >= 0 /\ JobId \in tasks => now <= firstSeen + 300000)
    /\ [][ firstSeen >= 0 /\ JobId \notin tasks =>
              /\ JobId \notin tasks'
              /\ reply' # reply => reply'.status \in Rejections \cup {"not_found"} ]_vars

\* Polled done at firstSeen and again 150 s later; removed at 300 s while
\* the timer of the later poll is still armed; the next poll is not-found.
C12_Witness ==
    /\ firstSeen >= 0
    /\ now = firstSeen + 300000
    /\ JobId \notin tasks
    /\ purges = {firstSeen + 450000}
    /\ reply.status = "not_found"

\* The answers of GET /api/task/:taskId.
PollAnswers == {"processing", "done", "error", "not_found"}

\* C13: a poll changes no field of the task; the task is written only in
\* steps of the submit handler and of the orchestrator it started.
C13_PollsWriteNothing ==
    [][ /\ reply'.status \in PollAnswers /\ reply' # reply => task' = task
        /\ task' # task => job' # job /\ job.pc # "settled" ]_vars

\* A poll answered with the progress of a running job, which is unchanged.
C13_Witness ==
    /\ reply = [code |-> 200, status |-> "processing", body |-> "generating"]
    /\ task.status = "processing"
    /\ task.progress = "generating"
    /\ job.pc = "poll_wait"

\* C15: when the last poll carried a preview URL, a failed HD request (an
\* error, or an answer without a URL) leaves the job done with the preview.
C15_HdFailureFallsBackToPreview ==
    /\ job.hq \in {"no_url", "thrown"} /\ job.url =>
          /\ task.status = "done"
          /\ task.result = "preview"
    /\ job.hq # "none" => job.pc = "settled" /\ job.item /\ job.status \notin {20, 30}

\* The HD request threw and the job is done with the preview URL.
C15_Witness ==
    /\ job.hq = "thrown"
    /\ job.url
    /\ task.status = "done"
    /\ task.result = "preview"

(***************************************************************************)
(* Properties of the two flows                                             *)
(***************************************************************************)
\* The run has seen a media URL: the HD answer's, the last poll's preview,
\* or the asset detail's.
ObtainedUrl == job.hq = "url" \/ job.url \/ job.videoUrl # ""

\* C14: a task whose status is done has a non-empty URL as its result, in
\* the direct-model flow and in the agent flow, and a run that ended without
\* having seen a URL has ended in error.
C14_DoneHasUrl ==
    /\ task.status = "done" => task.result # ""
    /\ job.pc = "settled" /\ ~ObtainedUrl => task.status = "error"

\* The agent flow has walked artifact and asset detail to a URL.
C14_Witness ==
    /\ task.status = "done"
    /\ task.result = "video_url"
    /\ job.sent["get_run_artifact"] = 1
    /\ job.sent["asset_detail"] = 1

\* C16: submit_run has been sent only with a consumer uid and a workspace
\* id that the two lookups yielded, and a flow that got past the lookups
\* without one of them has ended in error without a submit_run.
C16_SubmitRunNeedsIdentity ==
    /\ job.sent["submit_run"] > 0 => job.uid # "" /\ job.ws # ""
    /\ job.sent["get_user_workspace"] > 0 /\ job.pc \notin {"user_info", "get_user_workspace"}
          /\ (job.uid = "" \/ job.ws = "")
       => job.pc = "settled" /\ task.status = "error" /\ job.sent["submit_run"] = 0

\* Both lookups were answered and the run has been submitted.
C16_Witness ==
    /\ job.pc = "submit_run"
    /\ job.sent = [e \in AgentEndpoints |->
                     IF e \in {"user_info", "get_user_workspace", "submit_run"}
                     THEN 1 ELSE 0]
    /\ job.uid = "uid"
    /\ job.ws = "ws"

\* The post-completion request of the agent flow that was sent last.
LastResolveCall ==
    IF job.sent["asset_detail"] > 0 THEN "asset_detail" ELSE "get_run_artifact"

\* C17: when get_run_artifact or asset/detail ended the job with the error
\* of a failed in-page fetch, the request had been sent more than once.
C17_ResolveCallsRetried ==
    /\ job.pc = "settled"
    /\ job.sent["get_run_artifact"] > 0
    /\ task.status = "error"
    /\ task.error.kind = "request_failed"
    => job.sent[LastResolveCall] > 1

(***************************************************************************)
(* Properties of the uploads                                               *)
(***************************************************************************)
UploadSteps == <<"ticket", "apply", "upload", "commit">>

\* The answer to the i-th step issued says that the step went through.
StepSucceeded(i) ==
    LET s == job.steps[i][2]
        g == job.got[i] IN
    CASE s = "ticket" -> g.kind = "returned" /\ g.data = TokenData
      [] s = "apply" -> g.kind = "ok" /\ g.address
      [] s = "upload" -> g.kind \notin {"rejected", "not_ok"}
      [] s = "commit" -> g.kind = "ok" /\ g.results /\ g.UriStatus = 2000

\* The steps issued for file f, in the order of their issue.
StepsOfFile(f) ==
    LET own == SelectSeq(job.steps, LAMBDA e : e[1] = f) IN
    [i \in 1 .. Len(own) |-> own[i][2]]

IsPrefix(s, t) == Len(s) <= Len(t) /\ \A i \in 1 .. Len(s) : s[i] = t[i]

\* The positions of the steps of kind s.
Issued(s) == {i \in 1 .. Len(job.steps) : job.steps[i][2] = s}

\* C18: the steps issued for one file are ticket, apply, upload, commit in
\* this order, none twice; a step is issued only when the answers to all
\* steps before it said success; and when the answer to the last step issued
\* says failure, the job has ended in error.
C18_StepsInFixedOrder ==
    /\ \A f \in 1 .. job.files : IsPrefix(StepsOfFile(f), UploadSteps)
    /\ Len(job.got) \in {Len(job.steps) - 1, Len(job.steps)}
    /\ \A i \in 1 .. Len(job.steps) - 1 : StepSucceeded(i)
    /\ Len(job.steps) > 0 /\ Len(job.got) = Len(job.steps)
          /\ ~StepSucceeded(Len(job.steps))
       => job.pc = "settled" /\ task.status = "error"

\* The byte upload of the first file was answered with an error status.
C18_Witness ==
    /\ job.steps = <<<<1, "ticket">>, <<1, "apply">>, <<1, "upload">>>>
    /\ Len(job.got) = 3
    /\ job.got[3].kind = "not_ok"
    /\ job.pc = "settled"
    /\ task.status = "error"

\* C19: a file counts as uploaded only when its commit answer has
\* UriStatus 2000 in its first result; after any other commit answer no
\* further step was issued, the file is not uploaded, and the job has ended
\* in error without a generation submit.
C19_UriOnlyAfterUploadedStatus ==
    /\ job.uploaded =
          Cardinality({i \in Issued("commit") :
                          /\ i <= Len(job.got)
                          /\ job.got[i].kind = "ok"
                          /\ job.got[i].results
                          /\ job.got[i].UriStatus = 2000})
    /\ \A i \in Issued("commit") :
          /\ i <= Len(job.got)
          /\ ~(job.got[i].kind = "ok" /\ job.got[i].results /\ job.got[i].UriStatus = 2000)
          => /\ i = Len(job.steps)
             /\ job.uploaded = job.steps[i][1] - 1
             /\ job.pc = "settled"
             /\ task.status = "error"
             /\ job.submits = 0

\* The commit of the second file reported another status than 2000.
C19_Witness ==
    /\ job.files = 2
    /\ job.uploaded = 1
    /\ Len(job.steps) = 8
    /\ Len(job.got) = 8
    /\ job.got[8] = Ans("ok", FALSE, TRUE, 2001)
    /\ task.status = "error"
    /\ job.submits = 0

ActiveFlows == {f \in ClientFlows : flows[f].pc # "idle"}

\* C39: at most one flow of handleGenerate or resumePendingTask is under
\* way; the guard is set exactly while one is, and when none is the page
\* does not show a generation as running, so a new request is taken.
C39_OneFlowAndGuardReleased ==
    /\ Cardinality(ActiveFlows) <= 1
    /\ client.lock <=> ActiveFlows # {}
    /\ ActiveFlows = {} => client.status # "generating"

\* A generation is under way after an earlier flow ended on a recoverable
\* error.
C39_Witness ==
    /\ flows[1].ended = "recoverable"
    /\ flows[2].kind = "generate"
    /\ flows[2].pc = "poll_fetch"
    /\ client.lock

\* Flow f ends in this step.
FlowEnds(f) == flows[f].pc # "idle" /\ flows'[f].ended # "none" /\ flows'[f].pc = "idle"

\* C40: the snapshot is stored only when the server has returned a task
\* id; it is removed when a flow ends with success or with an error the
\* server reported for the task (status error, not found); it is kept only
\* when a poll failed in the network or the client's poll limit was reached.
C40_SnapshotKeptOnlyOnInterruption ==
    [][ /\ (client'.pending # client.pending /\ client'.pending # "") =>
              \E f \in ClientFlows :
                  /\ flows[f].pc = "submitting"
                  /\ flows'[f].pc = "poll_wait"
                  /\ flows'[f].taskId = client'.pending
        /\ \A f \in ClientFlows : FlowEnds(f) =>
              /\ flows'[f].cause \in {"done", "server_error", "not_found"} =>
                    client'.pending = ""
              /\ client'.pending # "" =>
                    flows'[f].cause \in {"poll_network", "poll_timeout"} ]_vars

\* The server reported the task as failed and the snapshot is still stored.
C40_KeptAfterServerError ==
    \E f \in ClientFlows :
        /\ flows[f].ended = "recoverable"
        /\ flows[f].cause = "server_error"
        /\ client.pending = flows[f].taskId
        /\ client.pending # ""

(***************************************************************************)
(* Properties of the disconnected handler (SpecBrowser).                   *)
(***************************************************************************)
\* Browser b, which is not the one the pool holds, goes away in this step.
ReplacedBrowserGone(b) ==
    /\ b \in connected
    /\ b \notin connected'
    /\ browser # 0
    /\ browser # b

\* The keys whose cached session lives on the browser the pool holds.
CurrentSessions ==
    {k \in Keys : sessions[k] # 0 /\ contexts[sessions[k]].browser = browser}

\* C38: when a browser the pool has replaced disconnects or is closed, the
\* handle of the current browser stays and so do the sessions created on it.
C38_ReplacedBrowserHarmless ==
    [][ \A b \in 1..launched : ReplacedBrowserGone(b) =>
            /\ browser' = browser
            /\ \A k \in CurrentSessions : sessions'[k] = sessions[k] ]_vars

\* A session on the current browser while an earlier browser is still alive.
C38_SessionBesideOldBrowser ==
    /\ browser # 0
    /\ CurrentSessions # {}
    /\ \E b \in connected : b # browser

(***************************************************************************)
(* Properties of the sessionLocks map (SpecPool).                          *)
(***************************************************************************)
\* The locked operations of key k that are queued or running.
PendingOps(k) ==
    {p \in Procs : procs[p].key = k /\ procs[p].pc \notin {"idle", "returned"}}

\* C37: sessionLocks has an entry for a key exactly when a locked operation
\* of that key is queued or running.
C37_LockEntryIffPending ==
    \A k \in Keys : sessionLocks[k] # 0 <=> PendingOps(k) # {}

\* The entry of a key is gone while a refreshSession of it is under way.
C37_EntryDroppedUnderRefresh ==
    \E p \in Procs :
        /\ procs[p].op = "refresh"
        /\ procs[p].pc \notin {"idle", "returned", "queued", "rf_closing"}
        /\ sessionLocks[procs[p].key] = 0

C36_SweptWhileProcessing ==
    /\ task.status = "processing"
    /\ JobId \notin tasks
    /\ reply.status = "not_found"
    /\ now - task.startTime < VIDEO_GENERATION_TIMEOUT_MS

(***************************************************************************)
(* Properties of the two request paths (SpecEquiv).                        *)
(***************************************************************************)
\* The class of an outcome: returned data, or which error.
OutcomeClass(o) == IF o.tag = "return" THEN "returned_data" ELSE o.err.kind

BothClassified == cls_out.direct # NoOutcome /\ cls_out.browser # NoOutcome

\* C33: both paths put every response body into the same outcome class.
C33_SameClass ==
    BothClassified => OutcomeClass(cls_out.direct) = OutcomeClass(cls_out.browser)

\* On the bodies whose ret is absent or a finite number, and that are not
\* the JSON literal null, the classes agree.
C33_SameClassNumericRet ==
    (BothClassified /\ cls_in.resp.kind # "json_null" /\ Opt(cls_in.resp, "ret_text") = "")
        => OutcomeClass(cls_out.direct) = OutcomeClass(cls_out.browser)

\* A ret that is not a finite number: returned by one path, an error of the other.
C33_NonNumericRetDiverges ==
    /\ BothClassified
    /\ Opt(cls_in.resp, "ret_text") = "abc"
    /\ OutcomeClass(cls_out.direct) = "returned_data"
    /\ OutcomeClass(cls_out.browser) = "api_error"

C33_Witness ==
    /\ BothClassified
    /\ cls_in.resp.hasRet /\ cls_in.resp.ret = 5000
    /\ OutcomeClass(cls_out.browser) = "balance"

(***************************************************************************)
(* Properties of buildMetaListFromPrompt (SpecMeta).                       *)
(***************************************************************************)
\* The material indexes of the image entries of a list, in order.
ImageRefs(metaList) ==
    LET images == SelectSeq(metaList, LAMBDA e : e.meta_type = "image") IN
    [i \in 1..Len(images) |-> images[i].material_idx]

NoPlaceholder(prompt) == \A i \in 1..Len(prompt) : prompt[i] \notin Placeholders

Built == ml_out.built /\ ml_in.imageCount >= 1

\* C35: with at least one image, every image entry of the list has a
\* material index in 0..imageCount-1, and for a prompt without placeholder
\* the list references every uploaded image exactly once, in index order.
C35_DefaultListWithoutPlaceholder ==
    Built =>
        /\ \A i \in 1..Len(ImageRefs(ml_out.list)) :
              ImageRefs(ml_out.list)[i] \in 0..(ml_in.imageCount - 1)
        /\ NoPlaceholder(ml_in.prompt) =>
              ImageRefs(ml_out.list) = [i \in 1..ml_in.imageCount |-> i - 1]

\* The part on the range of the indexes alone.
C35_IndexesInRange ==
    Built => \A i \in 1..Len(ImageRefs(ml_out.list)) :
                ImageRefs(ml_out.list)[i] \in 0..(ml_in.imageCount - 1)

\* A prompt of words only, with an image uploaded: the list is the text.
C35_TextOnly ==
    /\ Built
    /\ ml_in.prompt = <<"a">>
    /\ ml_out.list = <<TextMeta(<<"a">>)>>

(***************************************************************************)
(* Properties of the polling loop of the agent flow (SpecFlows).           *)
(***************************************************************************)
\* What the get_thread call that is settling hands to the loop.
ThreadOutcome ==
    IF job.via = "refresh"
    THEN Outcome("throw", NoData, procs[JobProc].result.err)
    ELSE ViaBrowserOutcome(procs[JobProc].result)

ThreadState == Opt(ThreadOutcome.data, "state")

\* The loop takes the outcome of a get_thread call in this step.
ThreadSettles == job.pc = "get_thread" /\ job'.pc # "get_thread"

LimitReached == now - job.pollStart >= VIDEO_GENERATION_TIMEOUT_MS

\* C32: after a get_thread answer the loop waits 2 s and asks again exactly
\* when the run state is neither 3 nor 4 and the limit is not reached; state
\* 4 ends the job in error with the reason the vendor reported; the limit,
\* or state 3 without an artifact id, ends it in error with no further
\* request.
C32_ThreadLoopExits ==
    [][ /\ (ThreadSettles /\ ThreadOutcome.tag = "return") =>
              /\ job'.pc = "thread_wait"
                    <=> (ThreadState \notin {"3", "4"} /\ ~LimitReached)
              /\ ThreadState = "4" =>
                    /\ task'.status = "error"
                    /\ task'.error.kind = "agent_failed"
                    /\ task'.error.reason \in
                          {Opt(ThreadOutcome.data, "fail_reason"),
                           Opt(ThreadOutcome.data, "error_message"), "unknown"} \ {""}
                    /\ job'.sent = job.sent
              /\ (\/ ThreadState \notin {"3", "4"} /\ LimitReached
                  \/ ThreadState = "3" /\ Opt(ThreadOutcome.data, "artifact_id") = "") =>
                    /\ task'.status = "error"
                    /\ task'.error.kind = "no_artifact"
                    /\ job'.sent = job.sent
        /\ job.pc = "thread_wait" /\ job'.pc # "thread_wait" =>
              /\ now' = now + 2000
              /\ job'.sent["get_thread"] = job.sent["get_thread"] + 1 ]_vars

\* A run reported as failed with a reason, after the loop went round.
C32_Witness ==
    /\ task.status = "error"
    /\ task.error.kind = "agent_failed"
    /\ task.error.reason = "quota"
    /\ job.sent["get_thread"] >= 2

(***************************************************************************)
(* Properties of the catch block of platformRequestViaBrowser (SpecFlows). *)
(***************************************************************************)
\* platformRequestViaBrowser takes up the pool call `v` that has settled.
CallSettles(v) ==
    /\ job.pc \in AgentEndpoints
    /\ job.via = v
    /\ procs[JobProc].pc = "returned"
    /\ job' # job

CallFailed == procs[JobProc].result.tag = "throw"

Destroyed == CallFailed /\ procs[JobProc].result.err.kind = "context_destroyed"

\* The calls whose failure the flow catches itself unless it is a login error.
Tolerated == {"user_info", "get_user_workspace"}

\* The failure leaves platformRequestViaBrowser: no refresh, no repetition
\* of the request, and a flow that does not catch it stops with that error.
Propagated ==
    /\ job'.via \notin {"refresh", "refetch"}
    /\ job'.pc # job.pc
    /\ job'.sent[job.pc] = job.sent[job.pc]
    /\ job.pc \notin Tolerated =>
          /\ job'.pc = "settled"
          /\ task'.status = "error"
          /\ task'.error = procs[JobProc].result.err

RefreshStarted ==
    /\ job'.via = "refresh"
    /\ job'.pc = job.pc
    /\ job'.sent = job.sent
    /\ procs'[JobProc].op = "refresh"

FetchRepeated ==
    /\ job'.via = "refetch"
    /\ job'.pc = job.pc
    /\ job'.sent[job.pc] = job.sent[job.pc] + 1
    /\ procs'[JobProc].op = "fetch"

\* C34 as stated: a first fetch that fails with `Execution context was
\* destroyed` is followed by one refreshSession and then one repeated fetch;
\* a failure of the repeated fetch and any other failure of the first fetch
\* propagate without refresh or retry.
C34_RefreshThenRefetch ==
    [][ /\ CallSettles("fetch") /\ Destroyed => RefreshStarted
        /\ CallSettles("refresh") => FetchRepeated
        /\ CallSettles("refetch") => job'.via \notin {"refresh", "refetch"}
        /\ CallSettles("refetch") /\ CallFailed => Propagated
        /\ CallSettles("fetch") /\ CallFailed /\ ~Destroyed => Propagated ]_vars

\* C34: the same, with the repeated fetch made when refreshSession has
\* returned; a refreshSession that fails propagates as well.
C34_RefreshThenRefetchIfRefreshed ==
    [][ /\ CallSettles("fetch") /\ Destroyed => RefreshStarted
        /\ CallSettles("refresh") /\ ~CallFailed => FetchRepeated
        /\ CallSettles("refresh") /\ CallFailed => Propagated
        /\ CallSettles("refetch") => job'.via \notin {"refresh", "refetch"}
        /\ CallSettles("refetch") /\ CallFailed => Propagated
        /\ CallSettles("fetch") /\ CallFailed /\ ~Destroyed => Propagated ]_vars

\* The repeated fetch has failed with the same error again.
C34_Witness ==
    /\ job.pc \in AgentEndpoints
    /\ job.via = "refetch"
    /\ procs[JobProc].pc = "returned"
    /\ Destroyed

(***************************************************************************)
(* Properties of normalizeSessionInput (SpecNormalize).                    *)
(***************************************************************************)
\* The text starts with a name of [a-zA-Z0-9_] that a colon and more follow.
NamedForm(t) ==
    \E n \in 1 .. Len(t) :
        /\ \A i \in 1 .. n : t[i] \notin Punctuation
        /\ Len(t) > n + 1
        /\ t[n + 1] = ":"

Surrounded(t) == t # <<>> /\ (t[1] \in Whitespace \/ t[Len(t)] \in Whitespace)

HeaderFragments(t) ==
    LET fs == SplitFragments(t, <<>>, FALSE) IN
    SelectSeq(fs, LAMBDA f : Trim(f) # <<>>)

FragmentName(f) == Trim(SliceTo(Trim(f), IndexOf(Trim(f), "=")))

FragmentValue(f) == Trim(SliceFrom(Trim(f), IndexOf(Trim(f), "=") + 1))

IsCookie(f) ==
    /\ IndexOf(Trim(f), "=") >= 1
    /\ FragmentName(f) # <<>>
    /\ \A i \in 1 .. Len(FragmentName(f)) : FragmentName(f)[i] \notin Punctuation

CookieHeader(t) ==
    /\ HeaderFragments(t) # <<>>
    /\ \A i \in 1 .. Len(HeaderFragments(t)) : IsCookie(HeaderFragments(t)[i])

\* The values the header gives the cookie named k, in the order of the header.
CookieValues(t, k) ==
    LET named == SelectSeq(HeaderFragments(t), LAMBDA f : FragmentName(f) = k) IN
    [i \in 1 .. Len(named) |-> FragmentValue(named[i])]

TopKey(p) == IF p = "xyq" THEN <<"sessionid_pippitcn_web">> ELSE <<"sessionid">>

\* C22 as stated: for a cookie header that has the platform's first candidate
\* key, the result is that key's value.
C22_TopKeyValueReturned ==
    (ns_out.called /\ ns_in.isString /\ CookieHeader(ns_in.text))
        => \A p \in PLATFORM_CONFIGS :
              CookieValues(ns_in.text, TopKey(p)) # <<>>
                  => \E i \in 1 .. Len(CookieValues(ns_in.text, TopKey(p))) :
                        ns_out.value[p] = CookieValues(ns_in.text, TopKey(p))[i]

\* C22: for a cookie header that gives the platform's first candidate key a
\* value that is not empty, the result is the last such value, wherever the
\* fragment stands and whatever white space surrounds it.
C22_TopKeyLastValueReturned ==
    (ns_out.called /\ ns_in.isString /\ CookieHeader(ns_in.text))
        => \A p \in PLATFORM_CONFIGS :
              LET given == SelectSeq(CookieValues(ns_in.text, TopKey(p)),
                                     LAMBDA v : v # <<>>) IN
              given # <<>> => ns_out.value[p] = given[Len(given)]

C22_Witness ==
    /\ ns_out.called
    /\ ns_in.text = <<"sessionid_pippitcn_web", "=", "x", ";", "sessionid", "=", "y">>
    /\ ns_out.value["jimeng"] = <<"y">>
    /\ ns_out.value["xyq"] = <<"x">>

\* C23: normalizing the result again gives the result:
\* N(p, N(p, x)) = N(p, x) for every platform p and input x.
C23_Idempotent ==
    ns_out.called
        => \A p \in PlatformKeys :
              normalizeSessionInput(p, [NoInput EXCEPT !.text = ns_out.value[p]])
                  = ns_out.value[p]

\* The name=value pairs of a text, and whether one of them has a candidate
\* name of the platform.
PairsOf(t) == FragmentPairs(SplitFragments(Trim(t), <<>>, FALSE))

CandidatePresent(p, t) ==
    \E i \in 1 .. Len(PairsOf(t)), j \in 1 .. Len(SESSION_TOKEN_COOKIE_KEYS(p)) :
        PairsOf(t)[i].key = SESSION_TOKEN_COOKIE_KEYS(p)[j]

\* C24: for an input with "=" and without a candidate name, the result is the
\* pair's value when the input is exactly one name=value pair and empty for
\* any other number of pairs.
C24_SinglePairFallback ==
    (ns_out.called /\ ns_in.isString /\ Includes(ns_in.text, "="))
        => \A p \in PLATFORM_CONFIGS :
              ~CandidatePresent(p, ns_in.text)
                  => ns_out.value[p] = IF Len(PairsOf(ns_in.text)) = 1
                                       THEN PairsOf(ns_in.text)[1].value
                                       ELSE <<>>

\* The platform's candidate names, in the order of its list.
CandidateOrder(p) ==
    IF p = "xyq"
    THEN << <<"sessionid_pippitcn_web">>, <<"sessionid_ss_pippitcn_web">>,
            <<"sid_tt_pippitcn_web">>, <<"sessionid">>, <<"sessionid_ss">>,
            <<"sid_tt">> >>
    ELSE << <<"sessionid">>, <<"sessionid_ss">>, <<"sid_tt">>,
            <<"sessionid_pippitcn_web">>, <<"sessionid_ss_pippitcn_web">>,
            <<"sid_tt_pippitcn_web">> >>

\* The values of the header for the first name of the list that satisfies
\* `has`, <<>> when no name does.
ValuesOfFirst(t, p, has(_)) ==
    LET hits == {i \in 1 .. Len(CandidateOrder(p)) : has(CookieValues(t, CandidateOrder(p)[i]))} IN
    IF hits = {} THEN <<>>
    ELSE CookieValues(t, CandidateOrder(p)[CHOOSE i \in hits : \A j \in hits : i <= j])

Named(values) == values # <<>>

Valued(values) == \E i \in 1 .. Len(values) : values[i] # <<>>

\* C31 as stated: for a cookie header that has candidate names, the result
\* is the value of the name that comes first in the platform's list.
C31_FirstNamedCandidateWins ==
    (ns_out.called /\ ns_in.isString /\ CookieHeader(ns_in.text))
        => \A p \in PLATFORM_CONFIGS :
              LET values == ValuesOfFirst(ns_in.text, p, Named) IN
              values # <<>> => \E i \in 1 .. Len(values) : ns_out.value[p] = values[i]

\* C31: for a cookie header that gives candidate names a value that is not
\* empty, the result is the value of the first such name in the platform's
\* list: the legacy names before the _pippitcn_web names for jimeng, the
\* other way round for xyq.
C31_FirstValuedCandidateWins ==
    (ns_out.called /\ ns_in.isString /\ CookieHeader(ns_in.text))
        => \A p \in PLATFORM_CONFIGS :
              LET given == SelectSeq(ValuesOfFirst(ns_in.text, p, Valued),
                                     LAMBDA v : v # <<>>) IN
              given # <<>> => ns_out.value[p] = given[Len(given)]

\* sid_tt and a _pippitcn_web name: neither is the head of a list.
C31_Witness ==
    /\ ns_out.called
    /\ ns_in.text = <<"sessionid_pippitcn_web", "=", "x", ";", "sid_tt", "=", "z">>
    /\ ns_out.value["jimeng"] = <<"z">>
    /\ ns_out.value["xyq"] = <<"x">>

(***************************************************************************)
(* Properties of createAWSSignature (SpecSign).                            *)
(***************************************************************************)
Changed == {f \in DOMAIN sig_a.args : sig_a.args[f] # sig_b.args[f]}

SignedTwice == sig_a.signed /\ sig_b.signed

C26_EvictedByOwnTimerOnly ==
    [][ /\ \A cl \in closing' \ closing : timers \ timers' \subseteq {cl.ctx}
        /\ \A p \in Procs :
              (procs[p].pc = "gs_enter" /\ procs'[p].pc = "evaluating")
                  => procs'[p].ctx \in timers' ]_vars

\* q was submitted for the key of p before p and has not completed.
PendingBefore(q, p) ==
    /\ q # p
    /\ procs[q].pc \notin {"idle", "returned"}
    /\ procs[q].key = procs[p].key
    /\ procs[q].run < procs[p].run

\* C27: the operations of one key run in submission order: the body of an
\* operation is executing only when every operation submitted for the key
\* before it has completed, by a value or by an error.
C27_BodiesInSubmissionOrder ==
    \A p, q \in Procs : InBody(p) => ~PendingBefore(q, p)

\* C28: at most one browser process launched by the pool is alive at any
\* time.
C28_OneBrowserAlive == Cardinality(connected) <= 1

\* C29: no session of a browser that is gone is in the cache, and none is
\* handed out by getSession.
C29_NoSessionOfDiscardedBrowser ==
    /\ [](\A k \in Keys :
            sessions[k] # 0 => contexts[sessions[k]].browser \in connected)
    /\ [][ \A p \in Procs :
              (procs[p].pc \in {"gs_enter", "gs_navigating"} /\ procs'[p].pc = "evaluating")
                  => contexts[procs'[p].ctx].browser \in connected' ]_vars

====
